---- MODULE Spec2Model ----
(***************************************************************************)
(* Query-and-indexing engine of log-pipeline: the filter model             *)
(* (internal/query), the level/hour index (internal/index), the query      *)
(* executor (internal/engine) and the filter merge used by the CLI and     *)
(* the HTTP query handler.                                                 *)
(*                                                                         *)
(* Strings are sequences of one-character strings, so that case mapping    *)
(* and substring search are computed character by character.  Instants     *)
(* are natural numbers (ticks); 0 is the zero time.Time, which the code    *)
(* reads as "unset" (IsZero).                                              *)
(***************************************************************************)
EXTENDS Integers, Sequences, FiniteSets, TLC

VARIABLES entries, index, snap, q, m, pr, disk, load, dir, cr, rd, srv, th

vars == <<entries, index, snap, q, m, pr, disk, load, dir, cr, rd, srv, th>>

\* the state outside the in-memory engine: the last Parse call, the store
\* file and day shards, the last LoadEntries call, the files snapshot.Create
\* writes step by step (elsewhere the snapshot file is snap, its content),
\* the running snapshot.Create call and the last read of the snapshot path,
\* the fields of the HTTP Server next to its entries and index, and the
\* requests its handlers are serving
ioVars == <<pr, disk, load, dir, cr, rd, srv, th>>

(***************************************************************************)
(* Bounds of the model.                                                    *)
(***************************************************************************)
MaxEntries == 2

TicksPerHour == 2

\* the nil pointer, the absent value
Nil == [nil |-> TRUE]

(***************************************************************************)
(* Strings: ASCII case mapping, case folding, substring search, order.     *)
(***************************************************************************)
LowerLetters == <<"a", "b", "c", "d", "e", "f", "g", "h", "i", "j", "k", "l", "m",
                  "n", "o", "p", "q", "r", "s", "t", "u", "v", "w", "x", "y", "z">>

UpperLetters == <<"A", "B", "C", "D", "E", "F", "G", "H", "I", "J", "K", "L", "M",
                  "N", "O", "P", "Q", "R", "S", "T", "U", "V", "W", "X", "Y", "Z">>

\* the characters without case: blank, tab, the two quotes, the operators and
\* list punctuation of the query language, digits and timestamp punctuation
Symbols == {" ", "\t", "\"", "'", "=", "~", "(", ")", ",", "-", ":",
            "0", "1", "2", "3", "4", "5", "6", "7", "8", "9"}

Chars == {LowerLetters[i] : i \in DOMAIN LowerLetters} \cup {UpperLetters[i] : i \in DOMAIN UpperLetters}
         \cup Symbols

ToUpperChar == [c \in Chars |-> IF \E i \in DOMAIN LowerLetters : LowerLetters[i] = c THEN UpperLetters[CHOOSE i \in DOMAIN LowerLetters : LowerLetters[i] = c] ELSE c]

ToLowerChar == [c \in Chars |-> IF \E i \in DOMAIN UpperLetters : UpperLetters[i] = c THEN LowerLetters[CHOOSE i \in DOMAIN UpperLetters : UpperLetters[i] = c] ELSE c]

ToUpper(s) == [i \in DOMAIN s |-> ToUpperChar[s[i]]]

ToLower(s) == [i \in DOMAIN s |-> ToLowerChar[s[i]]]

\* strings.EqualFold: same length, and each pair of characters is equal or
\* differs only by case.
EqualFold(s, t) == /\ Len(s) = Len(t)
                   /\ \A i \in DOMAIN s : \/ s[i] = t[i]
                                          \/ ToLowerChar[s[i]] = t[i]
                                          \/ s[i] = ToLowerChar[t[i]]

\* strings.Contains(s, sub)
Contains(s, sub) == \E k \in 0..(Len(s) - Len(sub)) : \A i \in DOMAIN sub : s[k + i] = sub[i]

\* the case-insensitive substring test of the search field
SearchHit(message, search) == Contains(ToLower(message), ToLower(search))

\* Go's string order on digit strings of equal or different length
\* (byte-wise lexicographic): s < t
RECURSIVE LexLess(_, _)
LexLess(s, t) == IF t = <<>> THEN FALSE
                 ELSE IF s = <<>> THEN TRUE
                 ELSE IF s[1] # t[1] THEN s[1] < t[1]
                 ELSE LexLess(Tail(s), Tail(t))

\* sort.Strings over a set of distinct keys
RECURSIVE SortStrings(_)
SortStrings(S) == IF S = {} THEN <<>>
                  ELSE LET least == CHOOSE x \in S : \A y \in S \ {x} : LexLess(x, y)
                       IN <<least>> \o SortStrings(S \ {least})

Range(s) == {s[i] : i \in DOMAIN s}

(***************************************************************************)
(* types.LogEntry, and the values the model draws entries from.            *)
(***************************************************************************)
ERROR == <<"E", "R", "R", "O", "R">>

error == <<"e", "r", "r", "o", "r">>

WARN == <<"W", "A", "R", "N">>

warn == <<"w", "a", "r", "n">>

Levels == {ERROR, error, WARN}

Messages == {<<"a", "b">>, <<"C">>}

\* hour 9 holds tick 19, hour 10 holds ticks 20 and 21 (at TicksPerHour = 2)
Ticks == 19..21

LogEntry == [Timestamp : Ticks, Level : Levels, Message : Messages]

\* time.Time.IsZero
IsZero(t) == t = 0

(***************************************************************************)
(* query.Filters.  Or is a sequence of Filters; an AND-filter has Or = <<>>.*)
(***************************************************************************)
AndFilter(level, levelIn, search, after, before) ==
    [Level |-> level, LevelIn |-> levelIn, Search |-> search,
     After |-> after, Before |-> before, Or |-> <<>>]

EmptyFilter == AndFilter(<<>>, <<>>, <<>>, 0, 0)

OrFilter(branches) == [EmptyFilter EXCEPT !.Or = branches]

\* MatchesFilters with the before bound taken as inclusive
RECURSIVE MatchesFiltersClosed(_, _)
MatchesFiltersClosed(e, f) ==
    IF Len(f.Or) > 0
    THEN \E i \in DOMAIN f.Or : MatchesFiltersClosed(e, f.Or[i])
    ELSE /\ (Len(f.LevelIn) > 0 => \E i \in DOMAIN f.LevelIn : EqualFold(e.Level, f.LevelIn[i]))
         /\ (f.Level # <<>> => EqualFold(e.Level, f.Level))
         /\ (~IsZero(f.After) => ~(e.Timestamp < f.After))
         /\ (~IsZero(f.Before) => e.Timestamp <= f.Before)
         /\ (f.Search # <<>> => SearchHit(e.Message, f.Search))

RECURSIVE MatchesFilters(_, _)
MatchesFilters(e, f) ==
    IF Len(f.Or) > 0
    THEN \E i \in DOMAIN f.Or : MatchesFilters(e, f.Or[i])
    ELSE /\ (Len(f.LevelIn) > 0 => \E i \in DOMAIN f.LevelIn : EqualFold(e.Level, f.LevelIn[i]))
         /\ (f.Level # <<>> => EqualFold(e.Level, f.Level))
         /\ (~IsZero(f.After) => ~(e.Timestamp < f.After))
         /\ (~IsZero(f.Before) => e.Timestamp < f.Before)
         /\ (f.Search # <<>> => SearchHit(e.Message, f.Search))

(***************************************************************************)
(* query.MergeFilters.  The result is the pair the Go function returns:    *)
(* on a conflict the error and the zero Filters{}.                         *)
(***************************************************************************)
isEmptyFilters(f) ==
    /\ f.Level = <<>> /\ f.Search = <<>> /\ IsZero(f.After) /\ IsZero(f.Before)
    /\ Len(f.LevelIn) = 0 /\ Len(f.Or) = 0

MergeError == [err |-> TRUE, filters |-> EmptyFilter]

MergeOk(f) == [err |-> FALSE, filters |-> f]

\* MergeLevelIn appending to a levelIn list that base already carries
MergeLevelInAppend(merged, extra) ==
    IF Len(extra.LevelIn) > 0
    THEN IF merged.Level # <<>>
         THEN MergeError
         ELSE MergeOk([merged EXCEPT !.LevelIn = merged.LevelIn \o extra.LevelIn])
    ELSE MergeOk(merged)

\* extra.LevelIn against the level constraints merged so far
MergeLevelIn(merged, extra) ==
    IF Len(extra.LevelIn) > 0
    THEN IF merged.Level # <<>> \/ Len(merged.LevelIn) > 0
         THEN MergeError
         ELSE MergeOk([merged EXCEPT !.LevelIn = merged.LevelIn \o extra.LevelIn])
    ELSE MergeOk(merged)

\* MergeLevel without the comparison of the two exact levels
MergeLevelExtraWins(merged, extra) ==
    IF extra.Level # <<>>
    THEN IF Len(merged.LevelIn) > 0 THEN MergeError
         ELSE MergeOk([merged EXCEPT !.Level = extra.Level])
    ELSE MergeOk(merged)

\* extra.Level against the level constraints merged so far
MergeLevel(merged, extra) ==
    IF extra.Level # <<>>
    THEN IF merged.Level # <<>> /\ ~EqualFold(merged.Level, extra.Level) THEN MergeError
         ELSE IF Len(merged.LevelIn) > 0 THEN MergeError
         ELSE MergeOk([merged EXCEPT !.Level = extra.Level])
    ELSE MergeOk(merged)

MergeSearch(merged, extra) ==
    IF extra.Search # <<>>
    THEN IF merged.Search # <<>> /\ merged.Search # extra.Search THEN MergeError
         ELSE MergeOk([merged EXCEPT !.Search = extra.Search])
    ELSE MergeOk(merged)

\* MergeAfter letting a set extra bound replace the base bound
MergeAfterExtraWins(mergedAfter, extraAfter) ==
    IF ~IsZero(extraAfter) THEN extraAfter ELSE mergedAfter

\* the merged After bound
MergeAfter(mergedAfter, extraAfter) ==
    IF ~IsZero(extraAfter)
    THEN IF ~IsZero(mergedAfter) /\ extraAfter > mergedAfter THEN extraAfter
         ELSE IF IsZero(mergedAfter) THEN extraAfter
         ELSE mergedAfter
    ELSE mergedAfter

\* the merged Before bound
MergeBefore(mergedBefore, extraBefore) ==
    IF ~IsZero(extraBefore)
    THEN IF ~IsZero(mergedBefore) /\ extraBefore < mergedBefore THEN extraBefore
         ELSE IF IsZero(mergedBefore) THEN extraBefore
         ELSE mergedBefore
    ELSE mergedBefore

\* the part of MergeFilters that runs when extra carries no OR-list:
\* merged starts as a copy of base (its Or list included)
MergeFields(base, extra) ==
    LET s1 == MergeLevelIn(base, extra)
    IN IF s1.err THEN MergeError
       ELSE LET s2 == MergeLevel(s1.filters, extra)
            IN IF s2.err THEN MergeError
               ELSE LET s3 == MergeSearch(s2.filters, extra)
                    IN IF s3.err THEN MergeError
                       ELSE MergeOk([s3.filters EXCEPT
                                       !.After = MergeAfter(s3.filters.After, extra.After),
                                       !.Before = MergeBefore(s3.filters.Before, extra.Before)])

RECURSIVE MergeFilters(_, _)
MergeFilters(base, extra) ==
    IF Len(extra.Or) > 0
    THEN IF isEmptyFilters(base) THEN MergeOk(extra)
         ELSE LET opts == [i \in DOMAIN extra.Or |-> MergeFilters(base, extra.Or[i])]
              IN IF \E i \in DOMAIN opts : opts[i].err THEN MergeError
                 ELSE MergeOk(OrFilter([i \in DOMAIN opts |-> opts[i].filters]))
    ELSE MergeFields(base, extra)

(***************************************************************************)
(* query.Parse: the query text is cut into tokens, the tokens into         *)
(* OR-groups, and every group is parsed into an AND-filter.                *)
(***************************************************************************)
Blank == {" ", "\t"}

\* strings.TrimSpace
RECURSIVE TrimSpace(_)
TrimSpace(s) == IF s = <<>> THEN s
                ELSE IF s[1] \in Blank THEN TrimSpace(Tail(s))
                ELSE IF s[Len(s)] \in Blank THEN TrimSpace(SubSeq(s, 1, Len(s) - 1))
                ELSE s

MatchAt(s, sub, k) == \A i \in DOMAIN sub : s[k + i] = sub[i]

\* strings.Index: the 0-based offset of the first occurrence, -1 if none
Index(s, sub) ==
    IF Contains(s, sub)
    THEN CHOOSE k \in 0..(Len(s) - Len(sub)) :
            MatchAt(s, sub, k) /\ \A j \in 0..(k - 1) : ~MatchAt(s, sub, j)
    ELSE -1

\* strings.Split on a one-character separator
RECURSIVE Split(_, _)
Split(s, sep) ==
    IF Index(s, <<sep>>) < 0 THEN <<s>>
    ELSE LET i == Index(s, <<sep>>)
         IN <<SubSeq(s, 1, i)>> \o Split(SubSeq(s, i + 2, Len(s)), sep)

trimQuotes(s) ==
    IF /\ Len(s) >= 2
       /\ \/ s[1] = "\"" /\ s[Len(s)] = "\""
          \/ s[1] = "'" /\ s[Len(s)] = "'"
    THEN SubSeq(s, 2, Len(s) - 1)
    ELSE s

\* one turn of the loop of tokenize over the character at st.i: the tokens
\* cut so far, the token being built and the open quote character ("" when
\* outside quotes)
TokenizeStep(input, st) ==
    LET ch == input[st.i]
        next == [st EXCEPT !.i = st.i + 1]
    IN IF st.inQuote # ""
       THEN IF ch = st.inQuote THEN [next EXCEPT !.inQuote = ""]
            ELSE [next EXCEPT !.b = Append(st.b, ch)]
       ELSE IF ch = "\"" \/ ch = "'" THEN [next EXCEPT !.inQuote = ch]
       ELSE IF ch \in Blank
            THEN [next EXCEPT !.tokens = IF Len(st.b) > 0 THEN Append(st.tokens, st.b) ELSE st.tokens,
                              !.b = <<>>]
       ELSE [next EXCEPT !.b = Append(st.b, ch)]

RECURSIVE TokenizeFrom(_, _)
TokenizeFrom(input, st) ==
    IF st.i > Len(input) THEN st ELSE TokenizeFrom(input, TokenizeStep(input, st))

tokenize(input) ==
    LET st == TokenizeFrom(input, [i |-> 1, tokens |-> <<>>, b |-> <<>>, inQuote |-> ""])
    IN IF st.inQuote # "" THEN [err |-> TRUE, tokens |-> <<>>]
       ELSE [err |-> FALSE,
             tokens |-> IF Len(st.b) > 0 THEN Append(st.tokens, st.b) ELSE st.tokens]

kwOR == <<"O", "R">>

kwIn == <<"i", "n">>

\* splitOnOR from token i (1-based) on
RECURSIVE SplitOnORFrom(_, _, _, _)
SplitOnORFrom(tokens, i, groups, current) ==
    IF i > Len(tokens)
    THEN IF Len(current) > 0 THEN Append(groups, current) ELSE groups
    ELSE IF EqualFold(tokens[i], kwOR)
         THEN IF Len(current) > 0 THEN SplitOnORFrom(tokens, i + 1, Append(groups, current), <<>>)
              ELSE SplitOnORFrom(tokens, i + 1, groups, current)
    ELSE IF i + 2 <= Len(tokens) /\ EqualFold(tokens[i + 1], kwIn)
         THEN SplitOnORFrom(tokens, i + 3, groups,
                            Append(current, tokens[i] \o <<" ">> \o kwIn \o <<" ">> \o tokens[i + 2]))
    ELSE SplitOnORFrom(tokens, i + 1, groups, Append(current, tokens[i]))

splitOnOR(tokens) == SplitOnORFrom(tokens, 1, <<>>, <<>>)

TokenError == [err |-> TRUE, key |-> <<>>, op |-> "", val |-> <<>>]

\* the key and value around the first occurrence of a one-character operator
SplitAtOperator(token, op) ==
    LET idx == Index(token, <<op>>)
        key == TrimSpace(SubSeq(token, 1, idx))
        val == TrimSpace(SubSeq(token, idx + 2, Len(token)))
    IN IF key = <<>> \/ val = <<>> THEN TokenError
       ELSE [err |-> FALSE, key |-> key, op |-> op, val |-> trimQuotes(val)]

splitToken(token) ==
    LET lower == ToLower(token)
        inOp == <<" ">> \o kwIn \o <<" ">>
    IN IF Contains(lower, inOp)
       THEN LET idx == Index(lower, inOp)
                key == TrimSpace(SubSeq(token, 1, idx))
                val == TrimSpace(SubSeq(token, idx + 5, Len(token)))
            IN IF key = <<>> \/ val = <<>> THEN TokenError
               ELSE [err |-> FALSE, key |-> key, op |-> "in", val |-> TrimSpace(val)]
       ELSE IF Contains(token, <<"~">>) THEN SplitAtOperator(token, "~")
       ELSE IF Contains(token, <<"=">>) THEN SplitAtOperator(token, "=")
       ELSE TokenError

parseInList(val) ==
    LET v == TrimSpace(val)
        inner == IF Len(v) >= 2 /\ v[1] = "(" /\ v[Len(v)] = ")"
                 THEN SubSeq(v, 2, Len(v) - 1) ELSE v
        parts == Split(inner, ",")
        out == SelectSeq([i \in DOMAIN parts |-> trimQuotes(TrimSpace(parts[i]))],
                         LAMBDA item : item # <<>>)
    IN [err |-> Len(out) = 0, items |-> out]

Digits == <<"0", "1", "2", "3", "4", "5", "6", "7", "8", "9">>

IsDigit(c) == \E d \in DOMAIN Digits : Digits[d] = c

DigitValue(c) == (CHOOSE d \in DOMAIN Digits : Digits[d] = c) - 1

TwoDigits(s, i) == 10 * DigitValue(s[i]) + DigitValue(s[i + 1])

\* the month the model's instants lie in; tick 0 is 2026-02-08T00:00:00Z
EpochMonth == <<"2", "0", "2", "6", "-", "0", "2", "-">>

\* time.Parse(time.RFC3339, val) for UTC texts 2026-02-DDTHH:MM:00Z from the
\* epoch day on; every other text is rejected
ParseTime(val) ==
    IF /\ Len(val) = 20
       /\ SubSeq(val, 1, 8) = EpochMonth
       /\ \A i \in {9, 10, 12, 13, 15, 16} : IsDigit(val[i])
       /\ val[11] = "T" /\ val[14] = ":" /\ SubSeq(val, 17, 20) = <<":", "0", "0", "Z">>
       /\ TwoDigits(val, 9) \in 8..28 /\ TwoDigits(val, 12) < 24 /\ TwoDigits(val, 15) < 60
    THEN [err |-> FALSE,
          t |-> ((TwoDigits(val, 9) - 8) * 24 + TwoDigits(val, 12)) * TicksPerHour
                + (TwoDigits(val, 15) * TicksPerHour) \div 60]
    ELSE [err |-> TRUE, t |-> 0]

\* time.ParseDuration(val) for texts of one digit and the unit h
ParseDuration(val) ==
    IF Len(val) = 2 /\ IsDigit(val[1]) /\ val[2] = "h"
    THEN [err |-> FALSE, d |-> DigitValue(val[1]) * TicksPerHour]
    ELSE [err |-> TRUE, d |-> 0]

kwLevel == <<"l", "e", "v", "e", "l">>

kwMessage == <<"m", "e", "s", "s", "a", "g", "e">>

kwSearch == <<"s", "e", "a", "r", "c", "h">>

kwSince == <<"s", "i", "n", "c", "e">>

kwAfter == <<"a", "f", "t", "e", "r">>

kwBefore == <<"b", "e", "f", "o", "r", "e">>

ParseError == [err |-> TRUE, filters |-> EmptyFilter]

ParseOk(f) == [err |-> FALSE, filters |-> f]

\* one turn of the loop of parseAndGroup: token t applied to the filter f
\* built so far; now is the reading of time.Now
ApplyToken(f, t, now) ==
    LET st == splitToken(t)
        key == ToLower(st.key)
    IN IF st.err THEN ParseError
       ELSE IF key = kwLevel
            THEN IF st.op = "in"
                 THEN LET levels == parseInList(st.val)
                      IN IF levels.err THEN ParseError
                         ELSE ParseOk([f EXCEPT !.LevelIn = f.LevelIn \o levels.items])
                 ELSE IF st.op # "=" THEN ParseError
                 ELSE ParseOk([f EXCEPT !.Level = st.val])
       ELSE IF key = kwMessage \/ key = kwSearch
            THEN IF st.op # "~" /\ st.op # "=" THEN ParseError
                 ELSE ParseOk([f EXCEPT !.Search = st.val])
       ELSE IF key = kwSince
            THEN IF st.op # "=" \/ ParseDuration(st.val).err THEN ParseError
                 ELSE ParseOk([f EXCEPT !.After = now - ParseDuration(st.val).d])
       ELSE IF key = kwAfter
            THEN IF st.op # "=" \/ ParseTime(st.val).err THEN ParseError
                 ELSE ParseOk([f EXCEPT !.After = ParseTime(st.val).t])
       ELSE IF key = kwBefore
            THEN IF st.op # "=" \/ ParseTime(st.val).err THEN ParseError
                 ELSE ParseOk([f EXCEPT !.Before = ParseTime(st.val).t])
       ELSE ParseError

RECURSIVE ParseTokens(_, _, _)
ParseTokens(tokens, f, now) ==
    IF tokens = <<>> THEN ParseOk(f)
    ELSE LET r == ApplyToken(f, Head(tokens), now)
         IN IF r.err THEN ParseError ELSE ParseTokens(Tail(tokens), r.filters, now)

parseAndGroup(tokens, now) == ParseTokens(tokens, EmptyFilter, now)

\* the loop of Parse over two or more groups
RECURSIVE ParseGroups(_, _, _)
ParseGroups(groups, root, now) ==
    IF groups = <<>> THEN ParseOk(root)
    ELSE LET r == parseAndGroup(Head(groups), now)
         IN IF r.err THEN ParseError
            ELSE ParseGroups(Tail(groups), [root EXCEPT !.Or = Append(root.Or, r.filters)], now)

Parse(input, now) ==
    LET tk == tokenize(input)
        groups == splitOnOR(tk.tokens)
    IN IF tk.err THEN ParseError
       ELSE IF Len(groups) = 0 THEN ParseOk(EmptyFilter)
       ELSE IF Len(groups) = 1 THEN parseAndGroup(groups[1], now)
       ELSE ParseGroups(groups, EmptyFilter, now)

(***************************************************************************)
(* index.Index: ByLevel and ByHour are maps (functions whose domain is     *)
(* the set of keys present), Hours the sorted list of hour keys.           *)
(***************************************************************************)
\* hourBucket: the UTC hour of t, formatted with fixed width ("2006-01-02T15");
\* the model keeps the two digits of the hour number.
hourBucket(t) == LET h == t \div TicksPerHour IN <<(h \div 10) % 10, h % 10>>

\* a map lookup: the zero value (nil slice) for a missing key
Lookup(map, key) == IF key \in DOMAIN map THEN map[key] ELSE <<>>

Build(es) ==
    LET byHour == [k \in {hourBucket(es[i].Timestamp) : i \in DOMAIN es} |->
                     SelectSeq(es, LAMBDA e : hourBucket(e.Timestamp) = k)]
    IN [ByLevel |-> [k \in {ToUpper(es[i].Level) : i \in DOMAIN es} |->
                       SelectSeq(es, LAMBDA e : ToUpper(e.Level) = k)],
        ByHour |-> byHour,
        Hours |-> SortStrings(DOMAIN byHour)]

\* the positions (0-based), in order, of the entries of es whose key is k
PositionsOf(keys, k) ==
    SelectSeq([i \in 1..Len(keys) |-> i - 1], LAMBDA p : keys[p + 1] = k)

ToSnapshotIndex(idx, es) ==
    LET levelKeys == [i \in DOMAIN es |-> ToUpper(es[i].Level)]
        hourKeys == [i \in DOMAIN es |-> hourBucket(es[i].Timestamp)]
    IN [ByLevel |-> [k \in Range(levelKeys) |-> PositionsOf(levelKeys, k)],
        ByHour |-> [k \in Range(hourKeys) |-> PositionsOf(hourKeys, k)],
        Hours |-> SortStrings(Range(hourKeys))]

\* EntriesAt giving up on a list that holds a position out of range
EntriesAtOrNone(positions, es) ==
    IF \E j \in DOMAIN positions : positions[j] < 0 \/ positions[j] >= Len(es)
    THEN <<>>
    ELSE [j \in DOMAIN positions |-> es[positions[j] + 1]]

\* EntriesAt with the lower range check off by one (position 0 dropped)
RECURSIVE EntriesAtFromOne(_, _)
EntriesAtFromOne(positions, es) ==
    IF positions = <<>> THEN <<>>
    ELSE LET i == Head(positions)
         IN (IF i > 0 /\ i < Len(es) THEN <<es[i + 1]>> ELSE <<>>) \o EntriesAtFromOne(Tail(positions), es)

\* the entries at the in-range positions of a position list, in list order
RECURSIVE EntriesAt(_, _)
EntriesAt(positions, es) ==
    IF positions = <<>> THEN <<>>
    ELSE LET i == Head(positions)
         IN (IF i >= 0 /\ i < Len(es) THEN <<es[i + 1]>> ELSE <<>>) \o EntriesAt(Tail(positions), es)

\* a bucket exists in the rebuilt map only once an entry was appended to it
Rehydrate(posMap, es) ==
    [k \in {key \in DOMAIN posMap : EntriesAt(posMap[key], es) # <<>>} |-> EntriesAt(posMap[k], es)]

FromSnapshotIndex(si, es) ==
    [ByLevel |-> Rehydrate(si.ByLevel, es),
     ByHour |-> Rehydrate(si.ByHour, es),
     Hours |-> si.Hours]

(***************************************************************************)
(* index.FilterWithFilters                                                 *)
(***************************************************************************)
\* the de-duplication key: the timestamp formatted with RFC3339Nano (which
\* keeps the whole instant), the level and the message as they are
DedupKey(e) == <<e.Timestamp, e.Level, e.Message>>

\* append to acc the entries of part whose key was not seen yet; the seen
\* set always holds exactly the keys of the entries appended so far
RECURSIVE AppendUnseen(_, _)
AppendUnseen(acc, part) ==
    IF part = <<>> THEN acc
    ELSE LET e == Head(part)
         IN IF \E i \in DOMAIN acc : DedupKey(acc[i]) = DedupKey(e)
            THEN AppendUnseen(acc, Tail(part))
            ELSE AppendUnseen(Append(acc, e), Tail(part))

\* ConcatBuckets skipping the cutoff's own hour as well (key <= startKey)
RECURSIVE ConcatBucketsAfterStart(_, _, _)
ConcatBucketsAfterStart(idx, hours, startKey) ==
    IF hours = <<>> THEN <<>>
    ELSE (IF ~LexLess(startKey, Head(hours)) THEN <<>> ELSE Lookup(idx.ByHour, Head(hours)))
         \o ConcatBucketsAfterStart(idx, Tail(hours), startKey)

RECURSIVE ConcatBuckets(_, _, _)
ConcatBuckets(idx, hours, startKey) ==
    IF hours = <<>> THEN <<>>
    ELSE (IF LexLess(Head(hours), startKey) THEN <<>> ELSE Lookup(idx.ByHour, Head(hours)))
         \o ConcatBuckets(idx, Tail(hours), startKey)

collectFromHourBuckets(idx, cutoff) ==
    IF idx = Nil \/ Len(idx.Hours) = 0 THEN <<>>
    ELSE ConcatBuckets(idx, idx.Hours, hourBucket(cutoff))

RECURSIVE LevelUnion(_, _, _)
LevelUnion(idx, levelIn, union) ==
    IF levelIn = <<>> THEN union
    ELSE LevelUnion(idx, Tail(levelIn), AppendUnseen(union, Lookup(idx.ByLevel, ToUpper(Head(levelIn)))))

\* Candidates looking the level bucket up without upper-casing the key
CandidatesRawLevel(all, idx, f) ==
    IF idx = Nil THEN all
    ELSE IF f.Level # <<>> THEN Lookup(idx.ByLevel, f.Level)
    ELSE IF Len(f.LevelIn) > 0 THEN LevelUnion(idx, f.LevelIn, <<>>)
    ELSE IF ~IsZero(f.After) THEN collectFromHourBuckets(idx, f.After)
    ELSE all

\* the candidate list of an AND-filter
Candidates(all, idx, f) ==
    IF idx = Nil THEN all
    ELSE IF f.Level # <<>> THEN Lookup(idx.ByLevel, ToUpper(f.Level))
    ELSE IF Len(f.LevelIn) > 0 THEN LevelUnion(idx, f.LevelIn, <<>>)
    ELSE IF ~IsZero(f.After) THEN collectFromHourBuckets(idx, f.After)
    ELSE all

\* the verification pass: TRUE when the candidate is kept
Verify(e, f) ==
    /\ ~(f.Level # <<>> /\ ~EqualFold(e.Level, f.Level))
    /\ (Len(f.LevelIn) > 0 => \E i \in DOMAIN f.LevelIn : EqualFold(e.Level, f.LevelIn[i]))
    /\ ~(~IsZero(f.After) /\ e.Timestamp < f.After)
    /\ ~(~IsZero(f.Before) /\ ~(e.Timestamp < f.Before))
    /\ ~(f.Search # <<>> /\ ~SearchHit(e.Message, f.Search))

RECURSIVE FilterWithFilters(_, _, _)
\* OrCombine concatenating the branch results without the seen-set
RECURSIVE OrCombineKeepAll(_, _, _, _)
OrCombineKeepAll(all, idx, options, combined) ==
    IF options = <<>> THEN combined
    ELSE OrCombineKeepAll(all, idx, Tail(options),
                          combined \o FilterWithFilters(all, idx, Head(options)))

RECURSIVE OrCombine(_, _, _, _)
OrCombine(all, idx, options, combined) ==
    IF options = <<>> THEN combined
    ELSE OrCombine(all, idx, Tail(options),
                   AppendUnseen(combined, FilterWithFilters(all, idx, Head(options))))

FilterWithFilters(all, idx, f) ==
    IF Len(f.Or) > 0 THEN OrCombine(all, idx, f.Or, <<>>)
    ELSE SelectSeq(Candidates(all, idx, f), LAMBDA e : Verify(e, f))

(***************************************************************************)
(* engine.QueryEntries                                                     *)
(***************************************************************************)
QueryOptions(filters, useIndex, limit, idx) ==
    [Filters |-> filters, UseIndex |-> useIndex, Limit |-> limit, Index |-> idx]

\* QueryEntries with the filtered-out count taken after the limit
QueryEntriesCountLimited(es, opts) ==
    LET idx == IF opts.Index = Nil THEN Build(es) ELSE opts.Index
        filtered == IF opts.UseIndex
                    THEN FilterWithFilters(es, idx, opts.Filters)
                    ELSE SelectSeq(es, LAMBDA e : MatchesFilters(e, opts.Filters))
        limited == IF opts.Limit > 0 /\ Len(filtered) > opts.Limit
                   THEN SubSeq(filtered, 1, opts.Limit)
                   ELSE filtered
    IN [results |-> limited,
        LogsFilteredOut |-> Len(es) - Len(limited),
        LogsReturned |-> Len(limited),
        IndexEnabled |-> opts.UseIndex]

QueryEntries(es, opts) ==
    LET idx == IF opts.Index = Nil THEN Build(es) ELSE opts.Index
        filtered == IF opts.UseIndex
                    THEN FilterWithFilters(es, idx, opts.Filters)
                    ELSE SelectSeq(es, LAMBDA e : MatchesFilters(e, opts.Filters))
        limited == IF opts.Limit > 0 /\ Len(filtered) > opts.Limit
                   THEN SubSeq(filtered, 1, opts.Limit)
                   ELSE filtered
    IN [results |-> limited,
        LogsFilteredOut |-> Len(es) - Len(filtered),
        LogsReturned |-> Len(limited),
        IndexEnabled |-> opts.UseIndex]

(***************************************************************************)
(* shard: day keys and day ranges.  A day key is the two-digit day of the  *)
(* month of the model's instants (tick 0 is midnight of the 8th), compared *)
(* like the "2006-01-02" strings of the code.                              *)
(***************************************************************************)
TicksPerDay == 24 * TicksPerHour

\* the calendar day (UTC) of an instant, counted from the epoch day
DayOf(t) == t \div TicksPerDay

\* d.Format("2006-01-02") for the day d days after the epoch day
FormatDay(d) == <<((8 + d) \div 10) % 10, (8 + d) % 10>>

\* DaysInRange without the exchange of inverted bounds
DaysInRangeNoSwap(after, before) ==
    IF IsZero(after) /\ IsZero(before) THEN <<>>
    ELSE LET start == IF IsZero(after) THEN before ELSE after
             end == IF IsZero(before) THEN after ELSE before
         IN [i \in 1..(DayOf(end) - DayOf(start) + 1) |-> FormatDay(DayOf(start) + i - 1)]

DaysInRange(after, before) ==
    IF IsZero(after) /\ IsZero(before) THEN <<>>
    ELSE LET start0 == IF IsZero(after) THEN before ELSE after
             end0 == IF IsZero(before) THEN after ELSE before
             start == IF end0 < start0 THEN end0 ELSE start0
             end == IF end0 < start0 THEN start0 ELSE end0
         IN [i \in 1..(DayOf(end) - DayOf(start) + 1) |-> FormatDay(DayOf(start) + i - 1)]

(***************************************************************************)
(* store and shard files.  A file is a record of the entries on its lines, *)
(* a file that does not exist is Nil; disk.store is the store file and     *)
(* disk.shards maps the day key of every existing shard file to the file.  *)
(***************************************************************************)
File(es) == [lines |-> es]

\* store.AppendJSONL: the file is created when missing
AppendJSONL(file, es) == IF file = Nil THEN File(es) ELSE File(file.lines \o es)

\* shard.GroupByDay: the entries of every day that occurs, in their order
GroupByDay(es) ==
    [day \in {FormatDay(DayOf(es[i].Timestamp)) : i \in DOMAIN es} |->
        SelectSeq(es, LAMBDA e : FormatDay(DayOf(e.Timestamp)) = day)]

\* store.AppendShards
AppendShards(shards, es) ==
    LET grouped == GroupByDay(es)
    IN [day \in DOMAIN shards \cup DOMAIN grouped |->
           IF day \in DOMAIN grouped
           THEN AppendJSONL(IF day \in DOMAIN shards THEN shards[day] ELSE Nil, grouped[day])
           ELSE shards[day]]

\* the loop of LoadJSONLFromMany: the files of paths in turn, a missing one
\* being skipped
RECURSIVE ReadMany(_, _)
ReadMany(paths, shards) ==
    IF paths = <<>> THEN <<>>
    ELSE (IF Head(paths) \in DOMAIN shards THEN shards[Head(paths)].lines ELSE <<>>)
         \o ReadMany(Tail(paths), shards)

IsSorted(es) == \A i \in 1..(Len(es) - 1) : ~(es[i + 1].Timestamp < es[i].Timestamp)

\* shard.SortEntries: sort.Slice is not stable, so every arrangement that is
\* ascending by timestamp is a possible outcome
SortEntries(es) ==
    {s \in {[i \in DOMAIN es |-> es[f[i]]] : f \in Permutations(DOMAIN es)} : IsSorted(s)}

\* LoadJSONLFromMany without the final sort
LoadJSONLFromManyUnsorted(paths, shards) == {ReadMany(paths, shards)}

\* store.LoadJSONLFromMany: the set of its possible results
LoadJSONLFromMany(paths, shards) == SortEntries(ReadMany(paths, shards))

\* shard.ShardPathsForRange: a path is named by its day key
ShardPathsForRange(after, before) == DaysInRange(after, before)

\* shard.AllShardPaths: filepath.Glob returns the existing files sorted
AllShardPaths(shards) == SortStrings(DOMAIN shards)

(***************************************************************************)
(* engine.LoadEntries.  The options name their sources by flags: the       *)
(* snapshot path reads snap, the load path and the store path read and     *)
(* write disk.store, the shard directory is disk.shards; File is the log   *)
(* file with the entries read from it (Nil: unreadable).                   *)
(***************************************************************************)
LoadOptions(snapshotPath, loadPath, shardPaths, replay, storePath, shardDir, file, retention) ==
    [SnapshotPath |-> snapshotPath, LoadPath |-> loadPath, ShardPaths |-> shardPaths,
     Replay |-> replay, StorePath |-> storePath, ShardDir |-> shardDir,
     File |-> file, Retention |-> retention]

LoadStats(read, ingested) == [LogsRead |-> read, LogsIngested |-> ingested]

\* the zero LoadResult returned with an error; the files are as before
LoadFailed == [err |-> TRUE, Entries |-> <<>>, Stats |-> LoadStats(0, 0), Index |-> Nil,
               store |-> disk.store, shards |-> disk.shards]

LoadOk(es, stats, idx, store, shards) ==
    [err |-> FALSE, Entries |-> es, Stats |-> stats, Index |-> idx,
     store |-> store, shards |-> shards]

\* snapshot.Version
Version == 1

\* the version test with every version accepted
VersionAccepted(s) == TRUE

\* snap.Metadata.Version != snapshot.Version
VersionMatches(s) == s.Metadata.Version = Version

\* applyRetention with the entry at the cutoff dropped as well
applyRetentionAfterCutoff(es, cutoff) == SelectSeq(es, LAMBDA e : cutoff < e.Timestamp)

applyRetention(es, cutoff) == SelectSeq(es, LAMBDA e : ~(e.Timestamp < cutoff))

\* the branch taken with the load path ahead of the snapshot path
SourceBranchLoadPathFirst(opts) ==
    IF opts.LoadPath THEN "load"
    ELSE IF opts.SnapshotPath THEN "snapshot"
    ELSE IF Len(opts.ShardPaths) > 0 THEN "shards"
    ELSE "file"

\* the if / else if chain of LoadEntries
SourceBranch(opts) ==
    IF opts.SnapshotPath THEN "snapshot"
    ELSE IF opts.LoadPath THEN "load"
    ELSE IF Len(opts.ShardPaths) > 0 THEN "shards"
    ELSE "file"

\* the index of the snapshot kept after a replay
ReplayIndexKept(idx) == idx

\* loadedIndex = nil after a replay
ReplayIndex(idx) == Nil

\* the outcome r of a branch, with the set of the sources it opened
Opened(sources, r) == [read |-> sources] @@ r

\* source resolution: the snapshot, else the load path, else the shard paths
\* (loaded is the outcome of LoadJSONLFromMany), else the log file
ResolveSources(opts, loaded) ==
    CASE SourceBranch(opts) = "snapshot" ->
           IF snap = Nil THEN Opened({"snapshot"}, LoadFailed)
           ELSE IF ~VersionMatches(snap) THEN Opened({"snapshot"}, LoadFailed)
           ELSE IF opts.Replay /\ opts.StorePath
                THEN IF disk.store = Nil THEN Opened({"snapshot", "store"}, LoadFailed)
                     ELSE Opened({"snapshot", "store"},
                                 LoadOk(snap.Entries \o disk.store.lines,
                                        LoadStats(Len(snap.Entries) + Len(disk.store.lines),
                                                  Len(snap.Entries) + Len(disk.store.lines)),
                                        ReplayIndex(FromSnapshotIndex(snap.Index,
                                                                      snap.Entries)),
                                        disk.store, disk.shards))
                ELSE Opened({"snapshot"},
                            LoadOk(snap.Entries,
                                   LoadStats(Len(snap.Entries), Len(snap.Entries)),
                                   FromSnapshotIndex(snap.Index, snap.Entries),
                                   disk.store, disk.shards))
      [] SourceBranch(opts) = "load" ->
           IF disk.store = Nil THEN Opened({"load"}, LoadFailed)
           ELSE Opened({"load"},
                       LoadOk(disk.store.lines,
                              LoadStats(Len(disk.store.lines), Len(disk.store.lines)), Nil,
                              disk.store, disk.shards))
      [] SourceBranch(opts) = "shards" ->
           Opened({"shards"},
                  LoadOk(loaded, LoadStats(Len(loaded), Len(loaded)), Nil,
                         disk.store, disk.shards))
      [] SourceBranch(opts) = "file" ->
           IF opts.Replay /\ opts.StorePath /\ disk.store = Nil
           THEN Opened({"store"}, LoadFailed)
           ELSE IF opts.File = Nil
           THEN Opened((IF opts.Replay /\ opts.StorePath THEN {"store"} ELSE {}) \cup {"file"},
                       LoadFailed)
           ELSE Opened((IF opts.Replay /\ opts.StorePath THEN {"store"} ELSE {}) \cup {"file"},
                       LoadOk((IF opts.Replay /\ opts.StorePath THEN disk.store.lines
                               ELSE <<>>) \o opts.File.lines,
                              LoadStats(Len(opts.File.lines), Len(opts.File.lines)), Nil,
                              IF opts.StorePath
                              THEN AppendJSONL(disk.store, opts.File.lines)
                              ELSE disk.store,
                              IF opts.ShardDir
                              THEN AppendShards(disk.shards, opts.File.lines)
                              ELSE disk.shards))

LoadEntries(opts, loaded, now) ==
    LET r == ResolveSources(opts, loaded)
    IN IF r.err \/ ~(opts.Retention > 0) THEN r
       ELSE [r EXCEPT !.Entries = applyRetention(r.Entries, now - opts.Retention)]

(***************************************************************************)
(* The filters and limits the model queries with.                          *)
(***************************************************************************)
QueryLevelIns == {<<>>, <<warn, ERROR>>, <<ERROR, error>>}

\* after = 21 falls inside hour 10: tick 20 shares its bucket, tick 19 does not
AndFilters == {AndFilter(l, li, s, a, b) : l \in {<<>>, error}, li \in QueryLevelIns,
                                           s \in {<<>>, <<"B">>}, a \in {0, 21}, b \in {0, 21}}

OrBranches == {AndFilter(error, <<>>, <<>>, 0, 0), AndFilter(<<>>, <<warn, ERROR>>, <<>>, 0, 0),
               AndFilter(<<>>, <<>>, <<>>, 21, 0), AndFilter(<<>>, <<>>, <<>>, 0, 21),
               AndFilter(<<>>, <<>>, <<"B">>, 0, 0)}

OrFilters == {OrFilter(<<a, b>>) : a \in OrBranches, b \in OrBranches}

QueryFilters == AndFilters \cup OrFilters

(***************************************************************************)
(* The engine: entries are ingested one by one, then queried.              *)
(***************************************************************************)
\* nothing parsed, no store file and no shard file, nothing loaded, no file
\* written by snapshot.Create, no snapshot.Create running, nothing read
IoInit == /\ pr = Nil
          /\ disk = [store |-> Nil, shards |-> <<>>]
          /\ load = Nil
          /\ dir = <<>>
          /\ cr = Nil
          /\ rd = Nil
          /\ srv = Nil
          /\ th = <<>>

Init == /\ entries = <<>>
        /\ index = Nil
        /\ snap = Nil
        /\ q = Nil
        /\ m = Nil
        /\ IoInit

\* engine.IngestEntries with no store and no shard directory, as called by
\* Server.handleIngest: the entry is appended and the cached index nulled
Ingest(e) == /\ q = Nil
             /\ Len(entries) < MaxEntries
             /\ entries' = Append(entries, e)
             /\ index' = Nil
             /\ UNCHANGED <<snap, q, m>>
             /\ UNCHANGED ioVars

\* one call of engine.QueryEntries over the current entries
Query(f, useIndex, limit) ==
    /\ q = Nil
    /\ q' = [opts |-> QueryOptions(f, useIndex, limit, index),
             out |-> QueryEntries(entries, QueryOptions(f, useIndex, limit, index))]
    /\ UNCHANGED <<entries, index, snap, m>>
    /\ UNCHANGED ioVars

Next == \/ \E e \in LogEntry : Ingest(e)
        \/ \E f \in QueryFilters, useIndex \in BOOLEAN : Query(f, useIndex, 0)

Spec == Init /\ [][Next]_vars

(***************************************************************************)
(* Snapshots: snapshot.Create writes the entries with the position form    *)
(* of their index; the snapshot branch of engine.LoadEntries adopts the    *)
(* entries and the rehydrated index.                                       *)
(***************************************************************************)
CreateSnapshot ==
    /\ snap' = [Metadata |-> [Version |-> Version, EntryCount |-> Len(entries)],
                Entries |-> entries,
                Index |-> ToSnapshotIndex(Build(entries), entries)]
    /\ UNCHANGED <<entries, index, q, m>>
    /\ UNCHANGED ioVars

LoadSnapshot ==
    /\ snap # Nil
    /\ snap.Metadata.Version = Version
    /\ entries' = snap.Entries
    /\ index' = FromSnapshotIndex(snap.Index, snap.Entries)
    /\ UNCHANGED <<snap, q, m>>
    /\ UNCHANGED ioVars

NextSnapshot == \/ \E e \in LogEntry : Ingest(e)
                \/ CreateSnapshot
                \/ LoadSnapshot

SpecSnapshot == Init /\ [][NextSnapshot]_vars

(***************************************************************************)
(* A query request (main, Server.handleQuery): the flag filter and the     *)
(* parsed query are merged; a conflict ends the request, otherwise the     *)
(* merged filter is executed.                                              *)
(***************************************************************************)
SampleEntries == <<[Timestamp |-> 20, Level |-> ERROR, Message |-> <<"a", "b">>],
                   [Timestamp |-> 21, Level |-> WARN, Message |-> <<"C">>],
                   [Timestamp |-> 19, Level |-> error, Message |-> <<"C">>]>>

MergeTimes == {0, 20, 21}

MergeSearches == {<<>>, <<"b">>, <<"B">>}

\* AND-filters with at most one of Level and LevelIn set
MergeAndFilters ==
    {AndFilter(l, <<>>, s, a, b) : l \in {<<>>, ERROR, error, WARN}, s \in MergeSearches,
                                   a \in MergeTimes, b \in MergeTimes}
    \cup {AndFilter(<<>>, li, s, a, b) : li \in {<<ERROR>>, <<warn, ERROR>>}, s \in MergeSearches,
                                         a \in MergeTimes, b \in MergeTimes}

MergeOrFilters == {OrFilter(<<AndFilter(ERROR, <<>>, <<>>, 0, 0), AndFilter(WARN, <<>>, <<>>, 0, 0)>>),
                   OrFilter(<<AndFilter(<<>>, <<>>, <<"b">>, 0, 0), AndFilter(<<>>, <<>>, <<>>, 21, 0)>>),
                   OrFilter(<<AndFilter(<<>>, <<ERROR>>, <<>>, 0, 21), AndFilter(error, <<>>, <<>>, 20, 0)>>)}

MergeInputs == MergeAndFilters \cup MergeOrFilters

InitMerge == /\ entries = SampleEntries
             /\ index = Nil
             /\ snap = Nil
             /\ q = Nil
             /\ m = Nil
             /\ IoInit

MergeRequest ==
    /\ m = Nil
    /\ \E base \in MergeInputs, extra \in MergeInputs :
          m' = [base |-> base, extra |-> extra, res |-> MergeFilters(base, extra)]
    /\ UNCHANGED <<entries, index, snap, q>>
    /\ UNCHANGED ioVars

RunMerged ==
    /\ m # Nil
    /\ ~m.res.err
    /\ \E useIndex \in BOOLEAN : Query(m.res.filters, useIndex, 0)

NextMerge == MergeRequest \/ RunMerged

SpecMerge == InitMerge /\ [][NextMerge]_vars

(***************************************************************************)
(* Parsing a query text (main, Server.handleQuery): the texts are made of  *)
(* clauses joined by one blank.                                            *)
(***************************************************************************)
MaxClauses == 3

lit1000 == EpochMonth \o <<"0", "8", "T", "1", "0", ":", "0", "0", ":", "0", "0", "Z">>

lit1030 == EpochMonth \o <<"0", "8", "T", "1", "0", ":", "3", "0", ":", "0", "0", "Z">>

clLevelEq == kwLevel \o <<"=">> \o ERROR

clLevelInTight == kwLevel \o <<" ">> \o kwIn \o <<" ", "(">> \o ERROR \o <<",">> \o WARN \o <<")">>

clLevelInSpaced == kwLevel \o <<" ">> \o kwIn \o <<" ", "(">> \o ERROR \o <<",", " ">> \o WARN \o <<")">>

\* key~value with the value inside a pair of quote characters qt
Quoted(key, qt, v) == key \o <<"~", qt>> \o v \o <<qt>>

valAB == <<"a", " ", "b">>

valLogInFailed == <<"l", "o", "g", " ", "i", "n", " ", "f", "a", "i", "l", "e", "d">>

valAOrB == <<"a", " ", "O", "R", " ", "b">>

clAfter == kwAfter \o <<"=">> \o lit1000

clBefore == kwBefore \o <<"=">> \o lit1030

clSince == kwSince \o <<"=", "1", "h">>

\* clauses of the grammar: key=value, key~value, key in (...), and OR
GoodClauses == {clLevelEq, clLevelInTight, clLevelInSpaced,
                Quoted(kwMessage, "\"", valAB), Quoted(kwMessage, "\"", valLogInFailed),
                Quoted(kwSearch, "'", valAOrB), kwOR, clAfter, clBefore, clSince}

clUnknownKey == <<"f", "o", "o", "=", "x">>

clWrongOperator == kwLevel \o <<"~", "x">>

clNoOperator == kwLevel

clEmptyList == kwLevel \o <<" ">> \o kwIn \o <<" ", "(", ")">>

clOpenList == kwLevel \o <<" ">> \o kwIn \o <<" ", "(">> \o ERROR

clOpenQuote == kwMessage \o <<"~", "\"", "a">>

\* clauses outside the grammar, the open quote aside
MalformedClauses == {clUnknownKey, clWrongOperator, clNoOperator, clEmptyList, clOpenList}

Clauses == GoodClauses \cup MalformedClauses \cup {clOpenQuote}

ClauseLists == UNION {[1..n -> Clauses] : n \in 0..MaxClauses}

RECURSIVE Join(_)
Join(clauses) == IF clauses = <<>> THEN <<>>
                 ELSE IF Len(clauses) = 1 THEN clauses[1]
                 ELSE clauses[1] \o <<" ">> \o Join(Tail(clauses))

\* the readings of time.Now during a Parse call
ParseNows == {21}

InitParse == /\ entries = SampleEntries
             /\ index = Nil
             /\ snap = Nil
             /\ q = Nil
             /\ m = Nil
             /\ IoInit

ParseRequest ==
    /\ pr = Nil
    /\ \E clauses \in ClauseLists, now \in ParseNows :
          pr' = [clauses |-> clauses, input |-> Join(clauses), now |-> now,
                 res |-> Parse(Join(clauses), now)]
    /\ UNCHANGED <<entries, index, snap, q, m, disk, load, dir, cr, rd, srv, th>>

NextParse == ParseRequest

SpecParse == InitParse /\ [][NextParse]_vars

(***************************************************************************)
(* Queries with a result limit (--limit, the limit parameter of /query).   *)
(***************************************************************************)
QueryLimits == 0..3

LimitFilters == {EmptyFilter,
                 AndFilter(error, <<>>, <<>>, 0, 0),
                 AndFilter(<<>>, <<warn, ERROR>>, <<"B">>, 0, 0),
                 AndFilter(<<>>, <<>>, <<>>, 20, 0),
                 AndFilter(<<>>, <<>>, <<>>, 19, 0),
                 OrFilter(<<AndFilter(error, <<>>, <<>>, 0, 0), AndFilter(<<>>, <<>>, <<>>, 0, 21)>>)}

QueryLimited ==
    \E f \in LimitFilters, useIndex \in BOOLEAN, limit \in QueryLimits : Query(f, useIndex, limit)

NextLimit == \/ \E e \in LogEntry : Ingest(e)
             \/ QueryLimited

SpecLimit == Init /\ [][NextLimit]_vars

(***************************************************************************)
(* Day ranges: DaysInRange applied to pairs of bounds over MaxDays days.   *)
(***************************************************************************)
MaxDays == 4

\* 0 is the unset bound; of every day its first instant (the epoch itself
\* aside), the next one and its last one
DayTimes == {0} \cup {d * TicksPerDay + o : d \in 0..(MaxDays - 1), o \in {0, 1, TicksPerDay - 1}}

SelectDays ==
    /\ load = Nil
    /\ \E after \in DayTimes, before \in DayTimes :
          load' = [after |-> after, before |-> before, days |-> DaysInRange(after, before)]
    /\ UNCHANGED <<entries, index, snap, q, m, pr, disk, dir, cr, rd, srv, th>>

NextDays == SelectDays

SpecDays == Init /\ [][NextDays]_vars

(***************************************************************************)
(* Shard reads: entries of two neighbouring days are appended to their day *)
(* shards in any order by a writing run; a reading run then loads either a *)
(* given list of shard paths or, as main does under -shard-read, the paths *)
(* its range selects, and queries the loaded entries with that range.      *)
(***************************************************************************)
\* the last instant of day 0 and the first two of day 1, at two levels each
ShardEntries == {[Timestamp |-> t, Level |-> l, Message |-> <<"C">>] :
                    t \in {TicksPerDay - 1, TicksPerDay, TicksPerDay + 1},
                    l \in {ERROR, WARN}}

\* lists of one or two shard paths; no file exists for the third day
ShardPathLists == UNION {[1..n -> {FormatDay(d) : d \in 0..2}] : n \in 1..2}

\* bounds of a range: unset, inside day 0, around the midnight after it
ShardTimes == {0, 1, TicksPerDay - 1, TicksPerDay, TicksPerDay + 1}

RECURSIVE SumLen(_, _)
SumLen(shards, days) ==
    IF days = {} THEN 0
    ELSE LET day == CHOOSE d \in days : TRUE
         IN Len(shards[day].lines) + SumLen(shards, days \ {day})

\* store.AppendShards of one entry by a writing run
AppendShard(e) ==
    /\ load = Nil
    /\ SumLen(disk.shards, DOMAIN disk.shards) < MaxEntries
    /\ disk' = [disk EXCEPT !.shards = AppendShards(disk.shards, <<e>>)]
    /\ UNCHANGED <<entries, index, snap, q, m, pr, load, dir, cr, rd, srv, th>>

\* main: engine.LoadEntries, whose result becomes the entries and the index
\* the run queries; after and before are the bounds of its filters
RunLoad(opts, now, after, before) ==
    /\ load = Nil
    /\ \E loaded \in LoadJSONLFromMany(opts.ShardPaths, disk.shards) :
          LET r == LoadEntries(opts, loaded, now)
          IN /\ load' = [opts |-> opts, now |-> now, after |-> after, before |-> before,
                         pre |-> disk, read |-> r.read,
                         res |-> [err |-> r.err, Entries |-> r.Entries,
                                  Stats |-> r.Stats, Index |-> r.Index]]
             /\ disk' = [store |-> r.store, shards |-> r.shards]
             /\ entries' = IF r.err THEN entries ELSE r.Entries
             /\ index' = IF r.err THEN index ELSE r.Index
    /\ UNCHANGED <<snap, q, m, pr, dir, cr, rd, srv, th>>

ShardReadOptions(paths) == LoadOptions(FALSE, FALSE, paths, FALSE, FALSE, FALSE, File(<<>>), 0)

\* a merged read of a given list of shard paths
LoadShards == \E paths \in ShardPathLists : RunLoad(ShardReadOptions(paths), 0, 0, 0)

\* the log file of -file: missing, or holding one line of day 0
ShardRunLogs == {Nil, File(<<[Timestamp |-> TicksPerDay - 1, Level |-> ERROR,
                              Message |-> <<"C">>]>>)}

\* main: the options of a run under -shard-read, which always names a shard
\* directory and passes the -file, -store and -replay flags as they are
ShardRunOptions(paths, replay, storePath, file) ==
    LoadOptions(FALSE, FALSE, paths, replay, storePath, TRUE, file, 0)

\* main under -shard-read: the paths of the range, or every shard file when
\* the filters carry no bound
LoadRange ==
    \E after \in ShardTimes, before \in ShardTimes, replay \in BOOLEAN,
       storePath \in BOOLEAN, file \in ShardRunLogs :
        RunLoad(ShardRunOptions(IF ~IsZero(after) \/ ~IsZero(before)
                                THEN ShardPathsForRange(after, before)
                                ELSE AllShardPaths(disk.shards),
                                replay, storePath, file),
                0, after, before)

\* main: engine.QueryEntries over the loaded entries with the run's filters
QueryLoaded ==
    /\ load # Nil
    /\ ~load.res.err
    /\ \E useIndex \in BOOLEAN :
          Query(AndFilter(<<>>, <<>>, <<>>, load.after, load.before), useIndex, 0)

NextShards == \/ \E e \in ShardEntries : AppendShard(e)
              \/ LoadShards
              \/ LoadRange
              \/ QueryLoaded

SpecShards == Init /\ [][NextShards]_vars

(***************************************************************************)
(* Loading: one call of engine.LoadEntries by a starting run, over every   *)
(* combination of its options and over the files the run may find: a       *)
(* snapshot of this or of another version, a store file, a shard file and  *)
(* a log file, or none of them.                                            *)
(***************************************************************************)
\* the instant of the call, and the retention durations: cutoff at tick 20
LoadNows == {22}
Retentions == {0, 2}

eOld == [Timestamp |-> 19, Level |-> ERROR, Message |-> <<"C">>]
eCut == [Timestamp |-> 20, Level |-> WARN, Message |-> <<"a", "b">>]
eNew == [Timestamp |-> 21, Level |-> error, Message |-> <<"C">>]

\* the file snapshot.Create writes for es, with the version of its writer
SnapshotFile(es, v) ==
    [Metadata |-> [Version |-> v, EntryCount |-> Len(es)],
     Entries |-> es,
     Index |-> ToSnapshotIndex(Build(es), es)]

SnapshotFiles == {Nil} \cup {SnapshotFile(es, v) : es \in {<<eOld, eNew>>, <<eCut>>},
                                                  v \in {Version, Version + 1}}

StoreFiles == {Nil, File(<<>>), File(<<eNew, eOld>>)}

ShardDirs == {<<>>, AppendShards(<<>>, <<eCut, eOld>>)}

LogFiles == {Nil, File(<<eOld, eCut, eNew>>), File(<<eNew, eOld>>)}

LoadOptionsSet ==
    {LoadOptions(sp, lp, paths, replay, st, sd, file, r) :
        sp \in BOOLEAN, lp \in BOOLEAN,
        paths \in {<<>>, <<FormatDay(0)>>, <<FormatDay(1), FormatDay(0)>>},
        replay \in BOOLEAN, st \in BOOLEAN, sd \in BOOLEAN,
        file \in LogFiles, r \in Retentions}

InitLoad == /\ entries = <<>>
            /\ index = Nil
            /\ snap \in SnapshotFiles
            /\ q = Nil
            /\ m = Nil
            /\ pr = Nil
            /\ disk \in [store : StoreFiles, shards : ShardDirs]
            /\ load = Nil
            /\ dir = <<>>
            /\ cr = Nil
            /\ rd = Nil
            /\ srv = Nil
            /\ th = <<>>

LoadCall == \E opts \in LoadOptionsSet, now \in LoadNows : RunLoad(opts, now, 0, 0)

NextLoad == LoadCall

SpecLoad == InitLoad /\ [][NextLoad]_vars

(***************************************************************************)
(* snapshot.Create step by step, with a reader of the snapshot path.  dir  *)
(* maps the name of every existing file to the document written into it    *)
(* and the number of its chunks written so far; a document is complete     *)
(* when all its MaxChunks chunks are written.  Only one Create runs at a   *)
(* time; it may stop after any step, leaving the files as they are.        *)
(***************************************************************************)
MaxChunks == 2

SnapshotPath == "snapshot.json"

\* the document written to the path itself
TempPathInPlace(path) == path

\* tmp := path + ".tmp"
TempPath(path) == path \o ".tmp"

Complete(file) == file.written = MaxChunks

\* the directory without the file name
Removed(files, name) == [n \in DOMAIN files \ {name} |-> files[n]]

\* the directory with file under name
Written(files, name, file) ==
    [n \in DOMAIN files \cup {name} |-> IF n = name THEN file ELSE files[n]]

\* snapshot.Load: os.ReadFile fails when no file has the name, and
\* json.Unmarshal fails on a document whose end is missing
Load(files, path) ==
    IF path \notin DOMAIN files THEN [err |-> TRUE, exists |-> FALSE]
    ELSE IF ~Complete(files[path])
         THEN [err |-> TRUE, exists |-> TRUE, file |-> files[path]]
         ELSE [err |-> FALSE, exists |-> TRUE, file |-> files[path],
               snap |-> files[path].data]

\* the entries a run snapshots
CreateEntries == {eOld, eNew}

\* a run holds entries
HoldEntry == \E e \in CreateEntries : Ingest(e)

\* Create up to json.MarshalIndent: the document is built from the entries
CreateStart ==
    /\ cr = Nil
    /\ cr' = [pc |-> "open", path |-> SnapshotPath, tmp |-> TempPath(SnapshotPath),
              data |-> SnapshotFile(entries, Version)]
    /\ UNCHANGED <<entries, index, snap, q, m, pr, disk, load, dir, rd, srv, th>>

\* os.WriteFile(tmp): the file is created, or emptied when it exists
CreateOpen ==
    /\ cr # Nil /\ cr.pc = "open"
    /\ dir' = Written(dir, cr.tmp, [data |-> cr.data, written |-> 0])
    /\ cr' = [cr EXCEPT !.pc = "write"]
    /\ UNCHANGED <<entries, index, snap, q, m, pr, disk, load, rd, srv, th>>

\* os.WriteFile(tmp): the next chunk of the document reaches the file
CreateWrite ==
    /\ cr # Nil /\ cr.pc = "write"
    /\ dir' = [dir EXCEPT ![cr.tmp].written = @ + 1]
    /\ cr' = [cr EXCEPT !.pc = IF dir[cr.tmp].written + 1 = MaxChunks THEN "stat" ELSE "write"]
    /\ UNCHANGED <<entries, index, snap, q, m, pr, disk, load, rd, srv, th>>

\* os.Stat(path) and, when it finds a file, os.Remove(path)
CreateRemove ==
    /\ cr # Nil /\ cr.pc = "stat"
    /\ dir' = IF cr.path \in DOMAIN dir THEN Removed(dir, cr.path) ELSE dir
    /\ cr' = [cr EXCEPT !.pc = "rename"]
    /\ UNCHANGED <<entries, index, snap, q, m, pr, disk, load, rd, srv, th>>

\* os.Rename(tmp, path); it fails when tmp is gone
CreateRename ==
    /\ cr # Nil /\ cr.pc = "rename"
    /\ dir' = IF cr.tmp \in DOMAIN dir
             THEN Written(Removed(dir, cr.tmp), cr.path, dir[cr.tmp])
             ELSE dir
    /\ cr' = Nil
    /\ UNCHANGED <<entries, index, snap, q, m, pr, disk, load, rd, srv, th>>

\* the run dies, or the step it is at fails, and Create does no more
CreateStops ==
    /\ cr # Nil
    /\ cr' = Nil
    /\ UNCHANGED <<entries, index, snap, q, m, pr, disk, load, dir, rd, srv, th>>

\* another process: snapshot.Load(path)
ReadSnapshot ==
    /\ rd' = Load(dir, SnapshotPath)
    /\ UNCHANGED <<entries, index, snap, q, m, pr, disk, load, dir, cr, srv, th>>

NextCreate == \/ HoldEntry
              \/ CreateStart
              \/ CreateOpen
              \/ CreateWrite
              \/ CreateRemove
              \/ CreateRename
              \/ CreateStops
              \/ ReadSnapshot

SpecCreate == Init /\ [][NextCreate]_vars

(***************************************************************************)
(* The HTTP Server.  entries and index are s.entries and s.baseIndex; srv  *)
(* holds the other fields, mu among them as the goroutine that holds the   *)
(* write lock ("none": nobody) and the set of those holding a read lock.   *)
(* th maps every goroutine serving requests to the handler it runs: its    *)
(* position, its request and its local variables.                          *)
(***************************************************************************)
NoWriter == "none"

\* server.New
NewServer(stats, useIndex, storePath, shardDir, apiKey) ==
    [loadStats |-> stats, useIndex |-> useIndex, storePath |-> storePath,
     shardDir |-> shardDir, apiKey |-> apiKey,
     mu |-> [writer |-> NoWriter, readers |-> {}],
     hasMetric |-> FALSE, lastMetric |-> Nil]

\* a goroutine between two requests
Idle == [pc |-> "idle", req |-> Nil, ents |-> <<>>, idx |-> Nil,
         stats |-> LoadStats(0, 0), batch |-> <<>>, out |-> Nil, status |-> 0]

\* RLock with a writer inside let through
RLockAlwaysFree(mu) == TRUE

\* sync.RWMutex: RLock returns when no goroutine holds the write lock
RLockFree(mu) == mu.writer = NoWriter

\* sync.RWMutex: Lock returns when no goroutine holds the lock in any mode
LockFree(mu) == mu.writer = NoWriter /\ mu.readers = {}

\* handleQuery up to s.mu.RLock(): the filters and the limit of the request
QueryRequest(filters, limit) == [kind |-> "query", filters |-> filters, limit |-> limit]

\* handleQuery: s.mu.RLock()
QueryRLock(t) ==
    /\ th[t].pc = "rlock"
    /\ RLockFree(srv.mu)
    /\ srv' = [srv EXCEPT !.mu.readers = @ \cup {t}]
    /\ th' = [th EXCEPT ![t].pc = "readEntries"]
    /\ UNCHANGED <<entries, index, snap, q, m, pr, disk, load, dir, cr, rd>>

\* handleQuery: entries := s.entries; stats := s.loadStats
QueryReadEntries(t) ==
    /\ th[t].pc = "readEntries"
    /\ th' = [th EXCEPT ![t].pc = "readIndex", ![t].ents = entries,
                        ![t].stats = srv.loadStats]
    /\ UNCHANGED <<entries, index, snap, q, m, pr, disk, load, dir, cr, rd, srv>>

\* handleQuery: baseIndex := s.baseIndex; s.mu.RUnlock()
QueryReadIndex(t) ==
    /\ th[t].pc = "readIndex"
    /\ th' = [th EXCEPT ![t].pc = "run", ![t].idx = index]
    /\ srv' = [srv EXCEPT !.mu.readers = @ \ {t}]
    /\ UNCHANGED <<entries, index, snap, q, m, pr, disk, load, dir, cr, rd>>

\* handleQuery: engine.QueryEntries over the values read
QueryRun(t) ==
    /\ th[t].pc = "run"
    /\ th' = [th EXCEPT ![t].pc = "metric",
                        ![t].out = QueryEntries(th[t].ents,
                                       QueryOptions(th[t].req.filters, srv.useIndex,
                                                    th[t].req.limit, th[t].idx))]
    /\ UNCHANGED <<entries, index, snap, q, m, pr, disk, load, dir, cr, rd, srv>>

\* handleQuery: s.mu.Lock(); s.lastMetric = metrics; s.mu.Unlock(); 200
QueryStoreMetric(t) ==
    /\ th[t].pc = "metric"
    /\ LockFree(srv.mu)
    /\ srv' = [srv EXCEPT !.hasMetric = TRUE,
                          !.lastMetric = [LogsRead |-> th[t].stats.LogsRead,
                                          LogsIngested |-> th[t].stats.LogsIngested,
                                          LogsFilteredOut |-> th[t].out.LogsFilteredOut,
                                          LogsReturned |-> th[t].out.LogsReturned,
                                          IndexEnabled |-> th[t].out.IndexEnabled]]
    /\ th' = [th EXCEPT ![t].pc = "idle", ![t].status = 200]
    /\ UNCHANGED <<entries, index, snap, q, m, pr, disk, load, dir, cr, rd>>

\* an ingest request: its method, its X-API-Key header and its body (Nil: not
\* JSON), a payload of one entry (Nil: none) and a list of entries
IngestRequest(method, key, body) ==
    [kind |-> "ingest", method |-> method, key |-> key, body |-> body]

ingestPayload(entry, items) == [Entry |-> entry, Entries |-> items]

ingestEntry(timestamp, level, message) ==
    [Timestamp |-> timestamp, Level |-> level, Message |-> message]

\* ingestEntry.toEntry
toEntry(e) ==
    IF e.Timestamp = <<>> \/ e.Level = <<>> \/ e.Message = <<>>
    THEN [err |-> TRUE, entry |-> Nil]
    ELSE IF ParseTime(e.Timestamp).err THEN [err |-> TRUE, entry |-> Nil]
    ELSE [err |-> FALSE,
          entry |-> [Timestamp |-> ParseTime(e.Timestamp).t, Level |-> e.Level,
                     Message |-> e.Message]]

\* handleIngest up to s.mu.Lock(): the status it answers with at once, or 0
\* and the entries to ingest
DecodeIngest(req, apiKey) ==
    IF req.method # "POST" THEN [status |-> 405, entries |-> <<>>]
    ELSE IF apiKey # "" /\ req.key # apiKey THEN [status |-> 401, entries |-> <<>>]
    ELSE IF req.body = Nil THEN [status |-> 400, entries |-> <<>>]
    ELSE IF Len(req.body.Entries) > 0
         THEN IF \E i \in DOMAIN req.body.Entries : toEntry(req.body.Entries[i]).err
              THEN [status |-> 400, entries |-> <<>>]
              ELSE [status |-> 0,
                    entries |-> [i \in DOMAIN req.body.Entries |->
                                    toEntry(req.body.Entries[i]).entry]]
    ELSE IF req.body.Entry # Nil
         THEN IF toEntry(req.body.Entry).err
              THEN [status |-> 400, entries |-> <<>>]
              ELSE [status |-> 0, entries |-> <<toEntry(req.body.Entry).entry>>]
    ELSE [status |-> 400, entries |-> <<>>]

\* handleIngest: s.mu.Lock()
IngestLock(t) ==
    /\ th[t].pc = "lock"
    /\ LockFree(srv.mu)
    /\ srv' = [srv EXCEPT !.mu.writer = t]
    /\ th' = [th EXCEPT ![t].pc = "ingest"]
    /\ UNCHANGED <<entries, index, snap, q, m, pr, disk, load, dir, cr, rd>>

\* engine.IngestEntries, the store append succeeding or not (storeOk) and
\* then the shard append (shardOk): the files after the call, whether it
\* failed, and the slice it returns
IngestEntries(existing, es, files, storePath, shardDir, storeOk, shardOk) ==
    IF storePath /\ ~storeOk
    THEN [err |-> TRUE, combined |-> existing, disk |-> files]
    ELSE LET stored == IF storePath
                       THEN [files EXCEPT !.store = AppendJSONL(files.store, es)]
                       ELSE files
         IN IF shardDir /\ ~shardOk
            THEN [err |-> TRUE, combined |-> existing, disk |-> stored]
            ELSE [err |-> FALSE, combined |-> existing \o es,
                  disk |-> IF shardDir
                           THEN [stored EXCEPT !.shards = AppendShards(stored.shards, es)]
                           ELSE stored]

\* handleIngest answering 500 without s.mu.Unlock()
IngestPersistKeepsLock(t) ==
    /\ th[t].pc = "ingest"
    /\ \E storeOk \in BOOLEAN, shardOk \in BOOLEAN :
          LET r == IngestEntries(entries, th[t].batch, disk, srv.storePath,
                                 srv.shardDir, storeOk, shardOk)
          IN /\ disk' = r.disk
             /\ srv' = srv
             /\ IF r.err
                THEN th' = [th EXCEPT ![t].pc = "idle", ![t].status = 500]
                ELSE th' = [th EXCEPT ![t].pc = "publish", ![t].ents = r.combined]
    /\ UNCHANGED <<entries, index, snap, q, m, pr, load, dir, cr, rd>>

\* handleIngest: engine.IngestEntries; on an error s.mu.Unlock() and 500
IngestPersist(t) ==
    /\ th[t].pc = "ingest"
    /\ \E storeOk \in BOOLEAN, shardOk \in BOOLEAN :
          LET r == IngestEntries(entries, th[t].batch, disk, srv.storePath,
                                 srv.shardDir, storeOk, shardOk)
          IN /\ disk' = r.disk
             /\ IF r.err
                THEN /\ srv' = [srv EXCEPT !.mu.writer = NoWriter]
                     /\ th' = [th EXCEPT ![t].pc = "idle", ![t].status = 500]
                ELSE /\ srv' = srv
                     /\ th' = [th EXCEPT ![t].pc = "publish", ![t].ents = r.combined]
    /\ UNCHANGED <<entries, index, snap, q, m, pr, load, dir, cr, rd>>

\* handleIngest: s.entries = combined
IngestPublish(t) ==
    /\ th[t].pc = "publish"
    /\ entries' = th[t].ents
    /\ th' = [th EXCEPT ![t].pc = "stats"]
    /\ UNCHANGED <<index, snap, q, m, pr, disk, load, dir, cr, rd, srv>>

\* handleIngest: s.loadStats.LogsRead += ...; s.loadStats.LogsIngested += ...
IngestCount(t) ==
    /\ th[t].pc = "stats"
    /\ srv' = [srv EXCEPT !.loadStats =
                  LoadStats(@.LogsRead + Len(th[t].batch), @.LogsIngested + Len(th[t].batch))]
    /\ th' = [th EXCEPT ![t].pc = "nullIndex"]
    /\ UNCHANGED <<entries, index, snap, q, m, pr, disk, load, dir, cr, rd>>

\* handleIngest: s.baseIndex = nil; s.mu.Unlock(); 200
IngestNullIndex(t) ==
    /\ th[t].pc = "nullIndex"
    /\ index' = Nil
    /\ srv' = [srv EXCEPT !.mu.writer = NoWriter]
    /\ th' = [th EXCEPT ![t].pc = "idle", ![t].status = 200]
    /\ UNCHANGED <<entries, snap, q, m, pr, disk, load, dir, cr, rd>>

\* a goroutine starts handleQuery
StartQuery(t, filters, limit) ==
    /\ th[t].pc = "idle"
    /\ th' = [th EXCEPT ![t] = [Idle EXCEPT !.pc = "rlock",
                                            !.req = QueryRequest(filters, limit)]]
    /\ UNCHANGED <<entries, index, snap, q, m, pr, disk, load, dir, cr, rd, srv>>

\* a goroutine starts handleIngest and runs it up to s.mu.Lock()
StartIngest(t, req) ==
    /\ th[t].pc = "idle"
    /\ LET d == DecodeIngest(req, srv.apiKey)
       IN th' = [th EXCEPT ![t] = IF d.status # 0
                                  THEN [Idle EXCEPT !.req = req, !.status = d.status]
                                  ELSE [Idle EXCEPT !.req = req, !.pc = "lock",
                                                    !.batch = d.entries]]
    /\ UNCHANGED <<entries, index, snap, q, m, pr, disk, load, dir, cr, rd, srv>>

\* one step of a handler that is running
HandlerStep(t) == \/ QueryRLock(t)
                  \/ QueryReadEntries(t)
                  \/ QueryReadIndex(t)
                  \/ QueryRun(t)
                  \/ QueryStoreMetric(t)
                  \/ IngestLock(t)
                  \/ IngestPersist(t)
                  \/ IngestPublish(t)
                  \/ IngestCount(t)
                  \/ IngestNullIndex(t)

(***************************************************************************)
(* The service under concurrent requests: two goroutines serve queries and *)
(* ingests in any interleaving, over a server started with a consistent    *)
(* pair of entries and index and with no store and no key configured.      *)
(***************************************************************************)
Goroutines == {"g1", "g2"}

itemA == ingestEntry(lit1000, ERROR, <<"C">>)
itemB == ingestEntry(lit1030, WARN, <<"C">>)
itemC == ingestEntry(lit1030, error, <<"a", "b">>)

\* a batch of two entries and a single entry
ServeIngests == {IngestRequest("POST", "", ingestPayload(Nil, <<itemA, itemB>>)),
                 IngestRequest("POST", "", ingestPayload(itemC, <<>>))}

ServeFilters == {EmptyFilter, AndFilter(ERROR, <<>>, <<>>, 0, 0)}

InitServe == /\ entries \in {<<>>, <<eOld>>}
             /\ index \in {Nil, Build(entries)}
             /\ snap = Nil
             /\ q = Nil
             /\ m = Nil
             /\ pr = Nil
             /\ disk = [store |-> Nil, shards |-> <<>>]
             /\ load = Nil
             /\ dir = <<>>
             /\ cr = Nil
             /\ rd = Nil
             /\ \E useIndex \in BOOLEAN :
                   srv = NewServer(LoadStats(Len(entries), Len(entries)), useIndex,
                                   FALSE, FALSE, "")
             /\ th = [t \in Goroutines |-> Idle]

ServeQuery(t) == \E f \in ServeFilters : StartQuery(t, f, 0)

\* ingests start while fewer than MaxEntries entries are held
ServeIngest(t) == /\ Len(entries) < MaxEntries
                  /\ \E req \in ServeIngests : StartIngest(t, req)

NextServe == \E t \in Goroutines : \/ ServeQuery(t)
                                   \/ ServeIngest(t)
                                   \/ HandlerStep(t)

SpecServe == InitServe /\ [][NextServe]_vars

(***************************************************************************)
(* Rehydration of any snapshot file: position lists with positions before, *)
(* inside and after the entries, in any order and repeated, next to zero   *)
(* to MaxEntries entries.                                                  *)
(***************************************************************************)
MaxPositions == 2

PositionLists == UNION {[1..n -> -1..MaxEntries] : n \in 0..MaxPositions}

RehydrateEntries == {SubSeq(<<eOld, eCut, eNew>>, 1, n) : n \in 0..MaxEntries}

AnySnapshotIndex ==
    {[ByLevel |-> (ERROR :> ps) @@ (WARN :> qs),
      ByHour |-> (hourBucket(eOld.Timestamp) :> hs),
      Hours |-> <<hourBucket(eOld.Timestamp)>>] :
        ps \in PositionLists, qs \in {<<>>, <<1>>}, hs \in PositionLists}

InitRehydrate ==
    /\ entries = <<>>
    /\ index = Nil
    /\ snap \in {[Metadata |-> [Version |-> Version, EntryCount |-> Len(es)],
                  Entries |-> es, Index |-> si] :
                    es \in RehydrateEntries, si \in AnySnapshotIndex}
    /\ q = Nil
    /\ m = Nil
    /\ IoInit

NextRehydrate == LoadSnapshot

SpecRehydrate == InitRehydrate /\ [][NextRehydrate]_vars

(***************************************************************************)
(* Load, then query: a run loads its entries under any options and puts    *)
(* one query to the result, with the index LoadEntries returned.           *)
(***************************************************************************)
LoadQueryFilters == {EmptyFilter,
                     AndFilter(ERROR, <<>>, <<>>, 0, 0),
                     AndFilter(<<>>, <<>>, <<>>, 19, 0)}

\* main: engine.QueryEntries over result.Entries with result.Index
QueryResult ==
    /\ load # Nil
    /\ ~load.res.err
    /\ \E f \in LoadQueryFilters, useIndex \in BOOLEAN : Query(f, useIndex, 0)

NextLoadQuery == LoadCall \/ QueryResult

SpecLoadQuery == InitLoad /\ [][NextLoadQuery]_vars

(***************************************************************************)
(* Rejected and failed ingests: two goroutines send ingest requests of     *)
(* every kind handleIngest tells apart, and queries, to a server started   *)
(* with one entry and its index, with or without a store file, a shard     *)
(* directory and an API key; an append to the store or to a shard may      *)
(* fail.                                                                   *)
(***************************************************************************)
ApiKey == "k"

\* an item toEntry rejects: it has no level
itemBad == ingestEntry(lit1000, <<>>, <<"C">>)

\* wrong method, wrong key, a body that is not JSON, a payload without an
\* entry, a batch with one invalid item, an invalid single entry, and a valid
\* batch and a valid entry, with and without the key
IngestRequests ==
    {IngestRequest("GET", ApiKey, ingestPayload(itemC, <<>>)),
     IngestRequest("POST", "x", ingestPayload(itemC, <<>>)),
     IngestRequest("POST", ApiKey, Nil),
     IngestRequest("POST", ApiKey, ingestPayload(Nil, <<>>)),
     IngestRequest("POST", ApiKey, ingestPayload(Nil, <<itemA, itemBad>>)),
     IngestRequest("POST", ApiKey, ingestPayload(itemBad, <<>>)),
     IngestRequest("POST", ApiKey, ingestPayload(Nil, <<itemA, itemB>>)),
     IngestRequest("POST", ApiKey, ingestPayload(itemC, <<>>)),
     IngestRequest("POST", "", ingestPayload(itemC, <<>>))}

\* the lines of the store file
StoredLines == IF disk.store = Nil THEN <<>> ELSE disk.store.lines

InitIngest == /\ entries = <<eOld>>
              /\ index = Build(entries)
              /\ snap = Nil
              /\ q = Nil
              /\ m = Nil
              /\ pr = Nil
              /\ disk = [store |-> Nil, shards |-> <<>>]
              /\ load = Nil
              /\ dir = <<>>
              /\ cr = Nil
              /\ rd = Nil
              /\ \E storePath \in BOOLEAN, shardDir \in BOOLEAN, apiKey \in {"", ApiKey} :
                    srv = NewServer(LoadStats(Len(entries), Len(entries)), TRUE,
                                    storePath, shardDir, apiKey)
              /\ th = [t \in Goroutines |-> Idle]

\* requests arrive while the entries and the store file hold fewer than
\* MaxEntries lines
IngestArrives(t) == /\ Len(entries) < MaxEntries
                    /\ Len(StoredLines) < MaxEntries
                    /\ \E req \in IngestRequests : StartIngest(t, req)

QueryArrives(t) == StartQuery(t, EmptyFilter, 0)

NextIngest == \E t \in Goroutines : \/ IngestArrives(t)
                                    \/ QueryArrives(t)
                                    \/ HandlerStep(t)

SpecIngest == InitIngest /\ [][NextIngest]_vars

(***************************************************************************)
(* Properties of the engine (Spec): q is the last call of QueryEntries.    *)
(***************************************************************************)
Queried == q # Nil

\* the index QueryEntries works with: opts.Index, or one built over entries
IndexUsed == IF q.opts.Index = Nil THEN Build(entries) ELSE q.opts.Index

\* that index is one built over the entries the call queries
IndexOverEntries == q.opts.Index = Nil \/ q.opts.Index = Build(entries)

\* the result of the same call on the other evaluation path
OtherPath == QueryEntries(entries, [q.opts EXCEPT !.UseIndex = ~q.opts.UseIndex]).results

\* C1: with limit 0 and an index built over the same entries, the
\* index-assisted run and the full scan return the same set of entries, for
\* AND-filters and flat OR-filters alike.
C1_IndexAndScanSameSet ==
    (Queried /\ q.opts.Limit = 0 /\ IndexOverEntries)
        => Range(q.out.results) = Range(OtherPath)

\* an index-assisted OR query whose result is non-empty and ordered
\* differently from the scan's
C1_Witness ==
    /\ Queried /\ q.opts.UseIndex /\ Len(q.opts.Filters.Or) > 0
    /\ q.out.results # <<>> /\ q.out.results # OtherPath

\* C2: for an AND-filter the candidate list chosen from the index holds
\* every entry that matches the full filter, and every entry at or after
\* the after bound lies in an hour bucket whose key is >= hourBucket(after).
C2_CandidatesKeepEveryMatch ==
    (Queried /\ q.opts.UseIndex /\ Len(q.opts.Filters.Or) = 0 /\ IndexOverEntries)
        => LET f == q.opts.Filters
               cands == Candidates(entries, IndexUsed, f)
           IN \A i \in DOMAIN entries :
                 /\ MatchesFilters(entries[i], f) => entries[i] \in Range(cands)
                 /\ (~IsZero(f.After) /\ entries[i].Timestamp >= f.After)
                       => /\ ~LexLess(hourBucket(entries[i].Timestamp), hourBucket(f.After))
                          /\ entries[i] \in Range(collectFromHourBuckets(IndexUsed, f.After))

\* the hour buckets narrow the entries to a shorter candidate list that
\* still holds a match and an entry before the cutoff
C2_Witness ==
    /\ Queried /\ q.opts.UseIndex /\ Len(q.opts.Filters.Or) = 0
    /\ q.opts.Filters.Level = <<>> /\ q.opts.Filters.LevelIn = <<>> /\ ~IsZero(q.opts.Filters.After)
    /\ Len(Candidates(entries, IndexUsed, q.opts.Filters)) < Len(entries)
    /\ q.out.results # <<>>

RECURSIVE IsSubList(_, _)
IsSubList(s, t) == IF s = <<>> THEN TRUE
                   ELSE IF t = <<>> THEN FALSE
                   ELSE IF Head(s) = Head(t) THEN IsSubList(Tail(s), Tail(t))
                   ELSE IsSubList(s, Tail(t))

NoDuplicateKeys(s) == \A i, j \in DOMAIN s : i # j => DedupKey(s[i]) # DedupKey(s[j])

\* the same call with the first branch A alone as its filter
FirstBranchAlone == QueryEntries(entries, [q.opts EXCEPT !.Filters = q.opts.Filters.Or[1]]).results

OrQueried == Queried /\ Len(q.opts.Filters.Or) = 2 /\ q.opts.Limit = 0

\* C4 as stated: for any entry set and either path, the result of {A} is a
\* sub-list of the result of {A OR B}, which has no two entries with the
\* same key.
C4_AnyEntrySet == OrQueried => /\ IsSubList(FirstBranchAlone, q.out.results)
                               /\ NoDuplicateKeys(q.out.results)

\* C4 (amended): the same, for entry sets that hold no two entries with the
\* same (timestamp, level, message) key.
C4_OrKeepsOrderNoDuplicates ==
    (OrQueried /\ NoDuplicateKeys(entries))
        => /\ IsSubList(FirstBranchAlone, q.out.results)
           /\ NoDuplicateKeys(q.out.results)

\* an index-assisted OR query over distinct entries where an entry matched
\* by both branches is returned once, after which the second branch adds one
C4_Witness ==
    /\ OrQueried /\ q.opts.UseIndex /\ NoDuplicateKeys(entries)
    /\ \E i \in DOMAIN entries : /\ MatchesFilters(entries[i], q.opts.Filters.Or[1])
                                  /\ MatchesFilters(entries[i], q.opts.Filters.Or[2])
    /\ Len(FirstBranchAlone) = 1 /\ Len(q.out.results) = 2

\* the match the filter model promises: every set field holds, the time
\* window being [After, Before)
InHalfOpenWindow(e, f) ==
    /\ (f.Level = <<>> \/ ToLower(e.Level) = ToLower(f.Level))
    /\ (f.LevelIn = <<>> \/ \E i \in DOMAIN f.LevelIn : ToLower(e.Level) = ToLower(f.LevelIn[i]))
    /\ (IsZero(f.After) \/ f.After <= e.Timestamp)
    /\ (IsZero(f.Before) \/ e.Timestamp < f.Before)
    /\ (f.Search = <<>> \/ SearchHit(e.Message, f.Search))

\* C10: a full scan with an AND-filter keeps exactly the entries inside
\* [after, before) that satisfy every set field: an entry at the after bound
\* is kept, an entry at the before bound is dropped, and the empty filter
\* keeps every entry.
C10_HalfOpenWindow ==
    (Queried /\ ~q.opts.UseIndex /\ Len(q.opts.Filters.Or) = 0 /\ q.opts.Limit = 0)
        => LET f == q.opts.Filters
           IN /\ q.out.results = SelectSeq(entries, LAMBDA e : InHalfOpenWindow(e, f))
              /\ \A i \in DOMAIN entries :
                    (~IsZero(f.Before) /\ entries[i].Timestamp = f.Before)
                        => entries[i] \notin Range(q.out.results)
              /\ (f = EmptyFilter => q.out.results = entries)

\* a scan whose window is [21, 0): the entry at 21 is kept; and the entry
\* set also holds one the bound drops
C10_Witness ==
    /\ Queried /\ ~q.opts.UseIndex /\ Len(q.opts.Filters.Or) = 0
    /\ q.opts.Filters.After = 21 /\ IsZero(q.opts.Filters.Before)
    /\ \E i \in DOMAIN entries : entries[i].Timestamp = 21 /\ entries[i] \in Range(q.out.results)
    /\ Len(q.out.results) < Len(entries)

(***************************************************************************)
(* Properties of snapshots (SpecSnapshot).                                 *)
(***************************************************************************)
\* C3: the index rehydrated from the snapshot form of Build(entries) has
\* the same byLevel buckets, the same byHour buckets (entries and order) and
\* the same hours list as Build(entries); index is non-nil only after
\* LoadSnapshot adopted the snapshot's entries together with its index.
C3_SnapshotRoundTrip ==
    /\ index # Nil => /\ index.ByLevel = Build(entries).ByLevel
                      /\ index.ByHour = Build(entries).ByHour
                      /\ index.Hours = Build(entries).Hours
    /\ snap # Nil => FromSnapshotIndex(snap.Index, snap.Entries) = Build(snap.Entries)

\* a rehydrated index over two distinct entries that share a level bucket
C3_Witness ==
    /\ index # Nil /\ Len(entries) = 2 /\ NoDuplicateKeys(entries)
    /\ \E k \in DOMAIN index.ByLevel : Len(index.ByLevel[k]) = 2
    /\ Len(index.Hours) = 2

(***************************************************************************)
(* Properties of the merge (SpecMerge): m is the MergeFilters call of the  *)
(* request, q the query run with the merged filter.                        *)
(***************************************************************************)
Merged == m # Nil

\* the same merge with its arguments swapped
Swapped == MergeFilters(m.extra, m.base)

SameMatches(f, g) == \A e \in LogEntry : MatchesFilters(e, f) = MatchesFilters(e, g)

IsAnd(f) == Len(f.Or) = 0

\* C5: MergeFilters(a, b) succeeds exactly when MergeFilters(b, a) does, and
\* the two merged filters then match exactly the same entries.
C5_MergeCommutes ==
    Merged => /\ m.res.err = Swapped.err
              /\ ~m.res.err => SameMatches(m.res.filters, Swapped.filters)

LevelsBothSet == m.base.Level # <<>> /\ m.extra.Level # <<>>

SearchClash == m.base.Search # <<>> /\ m.extra.Search # <<>> /\ m.base.Search # m.extra.Search

ConflictBothWays == /\ m.res.err /\ m.res.filters = EmptyFilter
                    /\ Swapped.err /\ Swapped.filters = EmptyFilter
                    /\ q = Nil

\* C6 as stated: any two non-empty exact levels that differ make the merge
\* fail in either order, with no filter and before any entry is filtered;
\* likewise two non-empty search values that differ.
C6_DifferentLevelsConflict ==
    (Merged /\ ((LevelsBothSet /\ m.base.Level # m.extra.Level) \/ SearchClash)) => ConflictBothWays

\* C6 (amended): the exact levels conflict when they differ other than by
\* letter case; search values conflict when they differ at all.  The merge
\* then fails in either order, returns the zero filter, and no query runs.
C6_ConflictIsReported ==
    /\ (Merged /\ ((LevelsBothSet /\ ~EqualFold(m.base.Level, m.extra.Level)) \/ SearchClash))
          => ConflictBothWays
    /\ (Merged /\ m.res.err) => q = Nil

\* a merge of two filters with the exact levels ERROR and WARN has failed
C6_Witness ==
    /\ Merged /\ LevelsBothSet /\ ~EqualFold(m.base.Level, m.extra.Level)
    /\ m.base.Search = m.extra.Search /\ m.res.err

\* C7: when exactly one argument carries an OR-list, the other argument's
\* constraints reach every branch: an entry matched by the merged filter
\* satisfies both arguments.
C7_OrBranchesCarryOtherSide ==
    (Merged /\ ~m.res.err /\ IsAnd(m.base) # IsAnd(m.extra))
        => \A e \in LogEntry : MatchesFilters(e, m.res.filters)
                                   => MatchesFilters(e, m.base) /\ MatchesFilters(e, m.extra)

LevelInBothSet == /\ IsAnd(m.base) /\ IsAnd(m.extra)
                  /\ Len(m.base.LevelIn) > 0 /\ Len(m.extra.LevelIn) > 0
                  /\ m.base.Level = <<>> /\ m.extra.Level = <<>>

\* C8 as stated: two AND-filters that both carry levelIn merge without
\* error and the merged levelIn is the concatenation of the two lists.
C8_LevelInListsConcatenate ==
    (Merged /\ LevelInBothSet)
        => ~m.res.err /\ m.res.filters.LevelIn = m.base.LevelIn \o m.extra.LevelIn

\* C8 (amended): two AND-filters that both carry levelIn do not merge: the
\* result is the conflict error and the zero filter.  A levelIn list reaches
\* the merged filter, unchanged, only when the other side has neither level
\* nor levelIn.
C8_LevelInListsConflict ==
    /\ (Merged /\ LevelInBothSet) => m.res.err /\ m.res.filters = EmptyFilter
    /\ (Merged /\ IsAnd(m.base) /\ IsAnd(m.extra) /\ ~m.res.err)
          => /\ m.res.filters.LevelIn \in {m.base.LevelIn, m.extra.LevelIn}
             /\ m.res.filters.LevelIn = m.base.LevelIn \o m.extra.LevelIn
             /\ (m.base.LevelIn = <<>> \/ m.extra.LevelIn = <<>>)

\* a merge of two filters that both carry levelIn has failed
C8_Witness == Merged /\ LevelInBothSet /\ m.base.Search = m.extra.Search /\ m.res.err

Later(a, b) == IF a > b THEN a ELSE b

Earlier(a, b) == IF a < b THEN a ELSE b

InWindow(t, f) == (IsZero(f.After) \/ f.After <= t) /\ (IsZero(f.Before) \/ t < f.Before)

\* C9: for two AND-filters that merge, the merged after bound is the later
\* of the set after bounds, the merged before bound the earlier of the set
\* before bounds, a bound set on one side only is taken as is, and the
\* merged window lies inside both input windows.
C9_MergedWindowTightens ==
    (Merged /\ IsAnd(m.base) /\ IsAnd(m.extra) /\ ~m.res.err)
        => LET a == m.base
               b == m.extra
               r == m.res.filters
           IN /\ r.After = (IF IsZero(a.After) THEN b.After
                             ELSE IF IsZero(b.After) THEN a.After
                             ELSE Later(a.After, b.After))
              /\ r.Before = (IF IsZero(a.Before) THEN b.Before
                              ELSE IF IsZero(b.Before) THEN a.Before
                              ELSE Earlier(a.Before, b.Before))
              /\ \A t \in Ticks : InWindow(t, r) => InWindow(t, a) /\ InWindow(t, b)

\* a merge where extra holds the earlier after bound and the later before
\* bound, so that both bounds of base are kept
C9_Witness ==
    /\ Merged /\ IsAnd(m.base) /\ IsAnd(m.extra) /\ ~m.res.err
    /\ m.base.After = 21 /\ m.extra.After = 20
    /\ m.base.Before = 20 /\ m.extra.Before = 21
    /\ m.res.filters.After = 21 /\ m.res.filters.Before = 20

(***************************************************************************)
(* Properties of parsing (SpecParse): pr is the last call of Parse.        *)
(***************************************************************************)
Parsed == pr # Nil

\* the AND-filters of a filter: its branches, or the filter itself
AndFiltersOf(f) == IF Len(f.Or) > 0 THEN Range(f.Or) ELSE {f}

\* C11: in every AND-filter that a successful Parse returns (the filter
\* itself or a branch of its OR-list), level and levelIn are not both set
C11_LevelAndLevelInExclusive ==
    Parsed /\ ~pr.res.err =>
        \A f \in AndFiltersOf(pr.res.filters) : ~(f.Level # <<>> /\ Len(f.LevelIn) > 0)

\* C12: the list of an in-clause is not split on its commas or blanks:
\* "level in (ERROR,WARN)" and "level in (ERROR, WARN)" both parse to
\* levelIn = [ERROR, WARN], and a clause that follows the closing parenthesis
\* is a further constraint of the same AND-filter
C12_InListKeptWhole ==
    Parsed =>
        \A c \in {clLevelInTight, clLevelInSpaced} :
            /\ pr.clauses = <<c>> =>
                  pr.res = ParseOk(AndFilter(<<>>, <<ERROR, WARN>>, <<>>, 0, 0))
            /\ pr.clauses = <<c, Quoted(kwMessage, "\"", valAB)>> =>
                  pr.res = ParseOk(AndFilter(<<>>, <<ERROR, WARN>>, valAB, 0, 0))

QuotedValues == {valAB, valLogInFailed, valAOrB}

\* C13: a quoted value that holds blanks (also around the words in and OR)
\* is parsed, and the field is exactly the text between the quotes
C13_QuotedBlanksAreLiteral ==
    Parsed =>
        \A key \in {kwMessage, kwSearch}, qt \in {"\"", "'"}, v \in QuotedValues :
            pr.clauses = <<Quoted(key, qt, v)>> =>
                pr.res = ParseOk(AndFilter(<<>>, <<>>, v, 0, 0))

\* the quote character open after the first i characters of the text ("" if
\* none), a quote character being closed only by the same character
RECURSIVE OpenQuoteAfter(_, _)
OpenQuoteAfter(text, st) ==
    IF st.i > Len(text) THEN st.open
    ELSE OpenQuoteAfter(text, [i |-> st.i + 1,
                               open |-> IF st.open # ""
                                        THEN (IF text[st.i] = st.open THEN "" ELSE st.open)
                                        ELSE (IF text[st.i] \in {"\"", "'"} THEN text[st.i] ELSE "")])

QuoteLeftOpen(text) == OpenQuoteAfter(text, [i |-> 1, open |-> ""]) # ""

\* the text has an unterminated quote, or, all its quotes being paired inside
\* single clauses, one of its clauses is outside the grammar
OutsideGrammar ==
    \/ QuoteLeftOpen(pr.input)
    \/ /\ clOpenQuote \notin Range(pr.clauses)
       /\ \E i \in DOMAIN pr.clauses : pr.clauses[i] \in MalformedClauses

\* C14: a text with an unknown key, a wrong operator, an unterminated quote,
\* a clause that is none of key=value, key~value, key in (...), or an empty
\* in-list is answered by the error and the empty filter, also when the
\* faulty clause stands in a later OR group
C14_MalformedTextIsRejected ==
    Parsed /\ OutsideGrammar => pr.res = ParseError

(***************************************************************************)
(* Properties of limited queries (SpecLimit).                              *)
(***************************************************************************)
\* the same call of QueryEntries without the limit
Unlimited == QueryEntries(entries, [q.opts EXCEPT !.Limit = 0])

IsPrefix(s, t) == Len(s) <= Len(t) /\ \A i \in DOMAIN s : s[i] = t[i]

\* C15: the returned list is the first limit entries of the unlimited result
\* (all of it when limit is 0 or the result is shorter); LogsReturned is its
\* length, and LogsFilteredOut is len(entries) less the number of unlimited
\* matches, whatever the limit
C15_LimitTruncatesAfterCounting ==
    Queried =>
        /\ IsPrefix(q.out.results, Unlimited.results)
        /\ Len(q.out.results) = IF q.opts.Limit > 0 /\ q.opts.Limit < Len(Unlimited.results)
                                THEN q.opts.Limit ELSE Len(Unlimited.results)
        /\ q.out.LogsReturned = Len(q.out.results)
        /\ q.out.LogsFilteredOut = Len(entries) - Len(Unlimited.results)

\* a query whose limit cut the result short: fewer entries are returned than
\* are held, and none counts as filtered out
C15_Witness ==
    /\ Queried /\ q.opts.Limit > 0
    /\ Len(q.out.results) = q.opts.Limit /\ Len(Unlimited.results) > q.opts.Limit
    /\ q.out.LogsFilteredOut = 0 /\ Len(entries) > Len(q.out.results)

(***************************************************************************)
(* Properties of day ranges (SpecDays): load holds the bounds and the      *)
(* day keys returned for them.                                             *)
(***************************************************************************)
\* the bounds of the range, an unset bound standing for the other one
RangeLow == LET a == IF IsZero(load.after) THEN load.before ELSE load.after
                b == IF IsZero(load.before) THEN load.after ELSE load.before
            IN IF a < b THEN a ELSE b

RangeHigh == LET a == IF IsZero(load.after) THEN load.before ELSE load.after
                 b == IF IsZero(load.before) THEN load.after ELSE load.before
             IN IF a < b THEN b ELSE a

\* C16: no day for two unset bounds; otherwise one key for every calendar
\* day from the day of the earlier bound to the day of the later one, both
\* included, in strictly ascending order, inverted bounds being exchanged;
\* endpoints two days apart give exactly three keys
C16_DaysInRangeInclusive ==
    load # Nil =>
        IF IsZero(load.after) /\ IsZero(load.before) THEN load.days = <<>>
        ELSE /\ Len(load.days) = DayOf(RangeHigh) - DayOf(RangeLow) + 1
             /\ load.days[1] = FormatDay(DayOf(RangeLow))
             /\ load.days[Len(load.days)] = FormatDay(DayOf(RangeHigh))
             /\ \A i \in 1..(Len(load.days) - 1) : LexLess(load.days[i], load.days[i + 1])
             /\ Range(load.days) = {FormatDay(d) : d \in DayOf(RangeLow)..DayOf(RangeHigh)}
             /\ (DayOf(RangeHigh) - DayOf(RangeLow) = 2 => Len(load.days) = 3)

\* inverted bounds two days apart, answered by three keys
C16_Witness ==
    /\ load # Nil /\ ~IsZero(load.before) /\ load.before < load.after
    /\ DayOf(load.after) - DayOf(load.before) = 2
    /\ Len(load.days) = 3

(***************************************************************************)
(* Properties of shard reads (SpecShards).                                 *)
(***************************************************************************)
RECURSIVE Times(_, _)
\* how often e occurs in es
Times(e, es) == IF es = <<>> THEN 0
                ELSE (IF Head(es) = e THEN 1 ELSE 0) + Times(e, Tail(es))

\* es and gs hold the same entries, each as often
SameEntries(es, gs) == Len(es) = Len(gs) /\ \A i \in DOMAIN es : Times(es[i], es) = Times(es[i], gs)

\* the lines of the existing files among paths, file after file
RECURSIVE LinesOf(_, _)
LinesOf(paths, shards) ==
    IF paths = <<>> THEN <<>>
    ELSE LET rest == LinesOf(Tail(paths), shards)
         IN IF Head(paths) \in DOMAIN shards THEN shards[Head(paths)].lines \o rest ELSE rest

Ascending(es) == \A i \in DOMAIN es : \A j \in DOMAIN es : i < j => es[i].Timestamp <= es[j].Timestamp

\* a run whose range has both bounds set, the second on the day after the first
RangeOverTwoDays == /\ load # Nil
                    /\ "after" \in DOMAIN load
                    /\ "opts" \in DOMAIN load
                    /\ ~IsZero(load.after)
                    /\ ~IsZero(load.before)
                    /\ DayOf(load.before) = DayOf(load.after) + 1

InRunWindow(e) == load.after <= e.Timestamp /\ e.Timestamp < load.before

\* C17: a merged shard read returns all entries of the existing files among
\* its paths in ascending timestamp order, whatever the order of the paths
\* and of the lines of each file; a range query with both bounds set that
\* spans two day shards selects both files and returns exactly their entries
\* inside [after, before), in ascending timestamp order.
C17_MergedShardReadSorted ==
    /\ (load # Nil /\ "opts" \in DOMAIN load /\ Len(load.opts.ShardPaths) > 0) =>
          /\ ~load.res.err
          /\ SameEntries(load.res.Entries, LinesOf(load.opts.ShardPaths, load.pre.shards))
          /\ Ascending(load.res.Entries)
          /\ entries = load.res.Entries
    /\ (RangeOverTwoDays /\ q # Nil) =>
          /\ load.opts.ShardPaths = <<FormatDay(DayOf(load.after)), FormatDay(DayOf(load.before))>>
          /\ SameEntries(q.out.results,
                         SelectSeq(LinesOf(load.opts.ShardPaths, load.pre.shards), InRunWindow))
          /\ Ascending(q.out.results)

\* a range with both bounds set that spans two days has been queried over the
\* shard files of both days, and entries of both files are returned
C17_Witness ==
    /\ RangeOverTwoDays /\ q # Nil
    /\ DOMAIN load.pre.shards = {FormatDay(0), FormatDay(1)}
    /\ \E i \in DOMAIN q.out.results : DayOf(q.out.results[i].Timestamp) = 0
    /\ \E i \in DOMAIN q.out.results : DayOf(q.out.results[i].Timestamp) = 1

(***************************************************************************)
(* Properties of engine.LoadEntries (SpecLoad).                            *)
(***************************************************************************)
\* the call read a snapshot file of another version
VersionMismatch == /\ load # Nil
                   /\ load.opts.SnapshotPath
                   /\ snap # Nil
                   /\ snap.Metadata.Version # Version

\* C18: when the snapshot at the snapshot path has a version other than the
\* expected one, LoadEntries fails and its result has no entries, no index
\* and zero stats, whatever replay, retention and the other sources are; the
\* run adopts nothing and no file is written.
C18_VersionMismatchLoadsNothing ==
    VersionMismatch =>
        /\ load.res = [err |-> TRUE, Entries |-> <<>>, Stats |-> LoadStats(0, 0), Index |-> Nil]
        /\ entries = <<>>
        /\ index = Nil
        /\ disk = load.pre

\* a version-2 snapshot holding entries was loaded with replay of an existing
\* store, retention, a load path, shard paths and a readable log file
C18_Witness ==
    /\ VersionMismatch
    /\ snap.Metadata.Version = 2
    /\ Len(snap.Entries) > 0
    /\ load.res.err
    /\ load.opts.Replay /\ load.opts.StorePath /\ load.opts.LoadPath /\ load.opts.ShardDir
    /\ load.opts.Retention > 0
    /\ Len(load.opts.ShardPaths) > 0
    /\ load.pre.store # Nil
    /\ load.opts.File # Nil

\* a call with retention that succeeded
LoadedWithRetention == load # Nil /\ ~load.res.err /\ load.opts.Retention > 0

\* the branch of the call that reads the log file
LogFileBranch == /\ ~load.opts.SnapshotPath
                 /\ ~load.opts.LoadPath
                 /\ Len(load.opts.ShardPaths) = 0

ReplayedStore == IF load.opts.Replay /\ load.opts.StorePath THEN load.pre.store.lines ELSE <<>>

\* what the sources of the call hold, by the branch taken; the shard branch
\* may arrange entries of one timestamp either way
ResolvedEntries ==
    IF load.opts.SnapshotPath THEN {snap.Entries \o ReplayedStore}
    ELSE IF load.opts.LoadPath THEN {load.pre.store.lines}
    ELSE IF Len(load.opts.ShardPaths) > 0
         THEN SortEntries(LinesOf(load.opts.ShardPaths, load.pre.shards))
    ELSE {ReplayedStore \o load.opts.File.lines}

Retained(es) == SelectSeq(es, LAMBDA e : e.Timestamp >= load.now - load.opts.Retention)

LinesBefore(file) == IF file = Nil THEN <<>> ELSE file.lines

ShardLinesBefore(day) ==
    IF day \in DOMAIN load.pre.shards THEN load.pre.shards[day].lines ELSE <<>>

OnDay(es, day) == SelectSeq(es, LAMBDA e : FormatDay(DayOf(e.Timestamp)) = day)

\* C19: after LoadEntries with a retention R > 0 the working set is the
\* entries of the resolved source with timestamp >= now - R in their order,
\* whatever the branch; the store file and the day shards gain every newly
\* ingested entry, those older than now - R included, and keep every line
\* they had.
C19_RetentionIsReadTimeView ==
    LoadedWithRetention =>
        /\ \E es \in ResolvedEntries : load.res.Entries = Retained(es)
        /\ entries = load.res.Entries
        /\ IF LogFileBranch /\ load.opts.StorePath
           THEN disk.store = File(LinesBefore(load.pre.store) \o load.opts.File.lines)
           ELSE disk.store = load.pre.store
        /\ IF LogFileBranch /\ load.opts.ShardDir
           THEN /\ DOMAIN load.pre.shards \subseteq DOMAIN disk.shards
                /\ \A e \in Range(load.opts.File.lines) :
                      FormatDay(DayOf(e.Timestamp)) \in DOMAIN disk.shards
                /\ \A day \in DOMAIN disk.shards :
                      disk.shards[day].lines =
                          ShardLinesBefore(day) \o OnDay(load.opts.File.lines, day)
           ELSE disk.shards = load.pre.shards

\* a log file holding an entry older than the cutoff and one at the cutoff
\* was loaded with retention and with replay of a store that held an old
\* entry, into the store and the shards: the working set lacks the old
\* entries, which the store file and the shard file hold
C19_Witness ==
    /\ LoadedWithRetention
    /\ LogFileBranch
    /\ load.opts.Replay /\ load.opts.StorePath /\ load.opts.ShardDir
    /\ load.pre.store # Nil
    /\ eOld \in Range(load.pre.store.lines)
    /\ eOld \in Range(load.opts.File.lines)
    /\ eCut \in Range(load.opts.File.lines)
    /\ eOld \notin Range(entries)
    /\ eCut \in Range(entries)
    /\ Times(eOld, disk.store.lines) = 2
    /\ eOld \in Range(disk.shards[FormatDay(0)].lines)

(***************************************************************************)
(* Properties of snapshot.Create (SpecCreate).                             *)
(***************************************************************************)
\* the file at the snapshot path, if any, is a complete document, and so is
\* what the last read of the path found
NoPartialSnapshot ==
    /\ SnapshotPath \in DOMAIN dir => Complete(dir[SnapshotPath])
    /\ (rd # Nil /\ rd.exists) => (Complete(rd.file) /\ ~rd.err)

\* a step puts content at the snapshot path that was not there before
NewContentVisible ==
    /\ SnapshotPath \in DOMAIN dir'
    /\ (SnapshotPath \notin DOMAIN dir \/ dir'[SnapshotPath] # dir[SnapshotPath])

\* the step is the rename of the completely written temp file
RenameOfCompleteTemp ==
    /\ cr # Nil /\ cr.pc = "rename" /\ cr' = Nil
    /\ cr.tmp # SnapshotPath
    /\ cr.tmp \in DOMAIN dir /\ cr.tmp \notin DOMAIN dir'
    /\ Complete(dir[cr.tmp])
    /\ dir'[SnapshotPath] = dir[cr.tmp]

\* C20: at every step of snapshot.Create, also when a snapshot exists at the
\* path, the file at the path is never a partly written document and a
\* reader of the path never reads one; new content appears at the path only
\* by the rename of the completely written temp file.
C20_CreateIsAtomicForReaders ==
    /\ []NoPartialSnapshot
    /\ [][NewContentVisible => RenameOfCompleteTemp]_vars

\* while Create is writing a different document to the temp file, with one
\* chunk of it written, a reader has read the complete older snapshot that
\* is at the path
C20_Witness ==
    /\ cr # Nil /\ cr.pc = "write"
    /\ dir[cr.tmp].written = 1
    /\ SnapshotPath \in DOMAIN dir
    /\ dir[SnapshotPath].data # cr.data
    /\ rd # Nil /\ ~rd.err
    /\ rd.snap = dir[SnapshotPath].data

(***************************************************************************)
(* Properties of the service under concurrent requests (SpecServe).        *)
(***************************************************************************)
\* the handler of t has read the entries and the index it evaluates
HasReadPair(t) == /\ th[t].req # Nil
                  /\ th[t].req.kind = "query"
                  /\ th[t].pc \in {"run", "metric", "idle"}

entryA == toEntry(itemA).entry
entryB == toEntry(itemB).entry

\* es holds the two-entry batch as often in its first entry as in its second
WholeBatches(es) == Times(entryA, es) = Times(entryB, es)

\* t is inside the critical section of handleIngest
Publishing(t) == th[t].pc \in {"ingest", "publish", "stats", "nullIndex"}

\* t is inside the shared critical section of handleQuery
Reading(t) == th[t].pc \in {"readEntries", "readIndex"}

\* C21: under any interleaving of queries and ingests, an ingest appends its
\* entries and nulls the index while it alone holds the lock, a query reads
\* its entries and index while no ingest holds the lock, and so the index a
\* query evaluates is nil or the index of exactly the entries it evaluates,
\* and these entries hold every ingested batch entirely or not at all.
C21_QueryReadsConsistentPair ==
    \A t \in DOMAIN th :
        /\ Publishing(t) => (srv.mu.writer = t /\ srv.mu.readers = {})
        /\ Reading(t) => (t \in srv.mu.readers /\ srv.mu.writer = NoWriter)
        /\ HasReadPair(t) =>
              /\ th[t].idx = Nil \/ th[t].idx = Build(th[t].ents)
              /\ WholeBatches(th[t].ents)
              /\ th[t].out # Nil =>
                    th[t].out.results =
                        SelectSeq(th[t].ents, LAMBDA e : MatchesFilters(e, th[t].req.filters))

\* a query with the index in use has read its pair while the other
\* goroutine waits for the lock with a batch, on a server started with an
\* index; an earlier batch is among the entries read
C21_Witness ==
    \E t \in DOMAIN th, u \in DOMAIN th :
        /\ t # u
        /\ srv.useIndex
        /\ th[t].req # Nil /\ th[t].req.kind = "query" /\ th[t].pc = "metric"
        /\ th[u].pc = "lock"
        /\ Times(entryA, th[t].ents) = 1
        /\ th[t].idx = Nil
        /\ Len(th[t].out.results) > 0

\* the source the precedence names for the options of the call
Precedence ==
    IF load.opts.SnapshotPath THEN "snapshot"
    ELSE IF load.opts.LoadPath THEN "load"
    ELSE IF Len(load.opts.ShardPaths) > 0 THEN "shards"
    ELSE "file"

StoreReplayed == load.opts.Replay /\ load.opts.StorePath

\* C22: LoadEntries opens the one source that the precedence snapshot path >
\* load path > shard paths > log file names, and next to it only the store
\* for a replay on the snapshot and log-file branches; it writes the store
\* file and the shard files on the log-file branch only.
C22_OneSourceByPrecedence ==
    load # Nil =>
        /\ Precedence = "snapshot" =>
              /\ "snapshot" \in load.read
              /\ load.read \subseteq {"snapshot", "store"}
              /\ "store" \in load.read => StoreReplayed
        /\ Precedence = "load" => load.read = {"load"}
        /\ Precedence = "shards" => load.read = {"shards"}
        /\ Precedence = "file" =>
              /\ load.read \subseteq {"store", "file"}
              /\ "store" \in load.read <=> StoreReplayed
        /\ Precedence # "file" => disk = load.pre

\* a snapshot was loaded while a load path, shard paths, a log file, a store
\* path and a shard directory were configured as well: only the snapshot was
\* opened, its entries are the result and no file changed
C22_Witness ==
    /\ load # Nil /\ ~load.res.err
    /\ load.opts.SnapshotPath /\ load.opts.LoadPath /\ Len(load.opts.ShardPaths) > 0
    /\ load.opts.File # Nil /\ load.opts.StorePath /\ load.opts.ShardDir
    /\ ~load.opts.Replay
    /\ load.pre.store # Nil /\ Len(load.pre.store.lines) > 0
    /\ load.read = {"snapshot"}
    /\ load.res.Entries = snap.Entries
    /\ disk = load.pre

\* a snapshot of the expected version was loaded
SnapshotLoaded == /\ load # Nil
                  /\ ~load.res.err
                  /\ load.opts.SnapshotPath

\* the entries as LoadEntries returns them: all of them without retention,
\* with retention those not older than the cutoff
AsReturned(es) ==
    IF load.opts.Retention > 0
    THEN SelectSeq(es, LAMBDA e : ~(e.Timestamp < load.now - load.opts.Retention))
    ELSE es

\* C23: a snapshot loaded with a store replay gives the snapshot entries
\* followed by the store entries and a nil index; a snapshot loaded without
\* replay gives the snapshot entries and the index rehydrated from the
\* snapshot.
C23_SnapshotReplayNullsIndex ==
    SnapshotLoaded =>
        IF load.opts.Replay /\ load.opts.StorePath
        THEN /\ load.res.Entries = AsReturned(snap.Entries \o load.pre.store.lines)
             /\ load.res.Index = Nil
             /\ index = Nil
        ELSE /\ load.res.Entries = AsReturned(snap.Entries)
             /\ load.res.Index = FromSnapshotIndex(snap.Index, snap.Entries)
             /\ load.res.Index # Nil
             /\ index = load.res.Index

\* a snapshot holding two entries was loaded without retention together with
\* a replay of a store holding two entries: the four entries are returned,
\* the snapshot's first, with no index
C23_Witness ==
    /\ SnapshotLoaded
    /\ load.opts.Replay /\ load.opts.StorePath
    /\ load.opts.Retention = 0
    /\ Len(snap.Entries) = 2
    /\ Len(load.pre.store.lines) = 2
    /\ snap.Entries # load.pre.store.lines
    /\ entries = snap.Entries \o load.pre.store.lines
    /\ index = Nil

(***************************************************************************)
(* Properties of rehydration (SpecRehydrate).                              *)
(***************************************************************************)
\* the positions of ps that are inside the entries, in their order
InRange(ps) == SelectSeq(ps, LAMBDA i : 0 <= i /\ i < Len(snap.Entries))

\* the entries at the in-range positions of ps, in the order of ps
Looked(ps) == [j \in DOMAIN InRange(ps) |-> snap.Entries[InRange(ps)[j] + 1]]

\* the rebuilt bucket map holds for every key of posMap the entries at its
\* in-range positions, and no bucket where none is in range
LenientlyRebuilt(buckets, posMap) ==
    /\ DOMAIN buckets = {k \in DOMAIN posMap : InRange(posMap[k]) # <<>>}
    /\ \A k \in DOMAIN buckets : buckets[k] = Looked(posMap[k])

\* C24: for any snapshot index and any entries, FromSnapshotIndex yields an
\* index: every position outside [0, len(entries)) is dropped and every
\* position inside it is kept as the entry at that position, in the order
\* of the position list, with negative and repeated positions in the list.
C24_RehydrationIsLenient ==
    index # Nil =>
        /\ LenientlyRebuilt(index.ByLevel, snap.Index.ByLevel)
        /\ LenientlyRebuilt(index.ByHour, snap.Index.ByHour)
        /\ index.Hours = snap.Index.Hours
        /\ entries = snap.Entries

\* a level list holding a negative position and a position that is in range
\* was rehydrated to that one entry, and an hour list holding one position
\* twice to that entry twice
C24_Witness ==
    /\ index # Nil
    /\ Len(snap.Entries) = 2
    /\ snap.Index.ByLevel[ERROR] = <<-1, 1>>
    /\ index.ByLevel[ERROR] = <<snap.Entries[2]>>
    /\ \E k \in DOMAIN index.ByHour :
          /\ snap.Index.ByHour[k] = <<0, 0>>
          /\ index.ByHour[k] = <<snap.Entries[1], snap.Entries[1]>>

(***************************************************************************)
(* Properties of a query over a load result (SpecLoadQuery).               *)
(***************************************************************************)
\* every entry of every bucket of idx is one of es
BucketsWithin(idx, es) ==
    /\ \A k \in DOMAIN idx.ByLevel : Range(idx.ByLevel[k]) \subseteq Range(es)
    /\ \A k \in DOMAIN idx.ByHour : Range(idx.ByHour[k]) \subseteq Range(es)

\* C25: an index returned by LoadEntries describes the returned entries: an
\* index-assisted query over the returned entries and index returns no entry
\* that is not among the returned entries, and does not count a negative
\* number of entries as filtered out.
C25_ReturnedIndexDescribesEntries ==
    (load # Nil /\ ~load.res.err /\ load.res.Index # Nil) =>
        /\ BucketsWithin(load.res.Index, load.res.Entries)
        /\ (q # Nil /\ q.opts.UseIndex) =>
              /\ Range(q.out.results) \subseteq Range(load.res.Entries)
              /\ q.out.LogsFilteredOut >= 0

\* the filter of the run: its range and nothing else
RunFilter == AndFilter(<<>>, <<>>, <<>>, load.after, load.before)

\* a run under -shard-read whose filter has a bound set
RangeRead == /\ load # Nil
             /\ "after" \in DOMAIN load
             /\ "opts" \in DOMAIN load
             /\ ~IsZero(load.after) \/ ~IsZero(load.before)

\* the lines of all shard files, file after file in the order of their days
AllShardLines == LinesOf(SortStrings(DOMAIN load.pre.shards), load.pre.shards)

\* C26: when the filter has its lower bound, its upper bound or both set,
\* every day shard holding an entry that matches the filter is among the
\* paths ShardPathsForRange selects, and the query over the shard read
\* returns the matches of all shard files.
C26_ShardSelectionKeepsMatches ==
    RangeRead =>
        /\ \A day \in DOMAIN load.pre.shards :
              (\E e \in Range(load.pre.shards[day].lines) : MatchesFilters(e, RunFilter))
                  => day \in Range(load.opts.ShardPaths)
        /\ q # Nil =>
              SameEntries(q.out.results,
                          SelectSeq(AllShardLines, LAMBDA e : MatchesFilters(e, RunFilter)))

(***************************************************************************)
(* Sequence of the index-assisted result (SpecLimit).                      *)
(***************************************************************************)
\* a query by an AND-filter with an index built over the entries
AndQueried == /\ Queried
              /\ Len(q.opts.Filters.Or) = 0
              /\ IndexOverEntries

\* the entries are held in ascending order of their hours
HourOrdered(es) ==
    \A i \in DOMAIN es : \A j \in DOMAIN es :
        i < j => ~LexLess(hourBucket(es[j].Timestamp), hourBucket(es[i].Timestamp))

\* the candidates of the filter come from the index in the order of entries:
\* from one level bucket, from the hour buckets of entries held in hour
\* order, or not from the index at all
CandidatesInEntryOrder ==
    \/ q.opts.Filters.Level # <<>>
    \/ /\ Len(q.opts.Filters.LevelIn) = 0
       /\ IsZero(q.opts.Filters.After) \/ HourOrdered(entries)

\* C27: for an AND-filter and an index built over the entries, the
\* index-assisted result is the same sequence as the full-scan result, with
\* the entries in any order and with any limit.
C27_IndexAndScanSameSequence ==
    AndQueried => q.out.results = OtherPath

\* Where the two paths agree: they return the same set of entries before the
\* limit; they return the same sequence, with any limit, when the filter has
\* an exact level, or has no levelIn list and either no after bound or
\* entries held in ascending hour order.
SameSequenceForEntryOrderCandidates ==
    AndQueried =>
        /\ Range(Unlimited.results) =
               Range(QueryEntries(entries, [q.opts EXCEPT !.Limit = 0,
                                                          !.UseIndex = ~q.opts.UseIndex]).results)
        /\ CandidatesInEntryOrder => q.out.results = OtherPath

(***************************************************************************)
(* Shard reads and ingestion (SpecShards).                                 *)
(***************************************************************************)
\* a run of main under -shard-read, the only run here that names a shard
\* directory; it has neither a snapshot path nor a store load path
ShardReadRequested ==
    /\ load # Nil
    /\ load.opts.ShardDir
    /\ ~load.opts.SnapshotPath
    /\ ~load.opts.LoadPath

\* C28: a run under -shard-read, whatever the shard directory holds, does not
\* read the log file and leaves the store file and the shard directory as
\* they were.
C28_ShardReadNeverIngests ==
    ShardReadRequested => /\ "file" \notin load.read
                          /\ disk = load.pre

\* Where the shard read stays a read: whenever main selects at least one shard path
ShardReadWithPathsNeverIngests ==
    ShardReadRequested /\ Len(load.opts.ShardPaths) > 0 =>
        /\ load.read = {"shards"}
        /\ disk = load.pre

(***************************************************************************)
(* Replacing a snapshot (SpecCreate).                                      *)
(***************************************************************************)
\* a complete snapshot is at the snapshot path
SnapshotPresent(files) ==
    /\ SnapshotPath \in DOMAIN files
    /\ Complete(files[SnapshotPath])

\* C29: once a complete snapshot is at the path, every step of Create, and a
\* crash or failure at any step, leaves a complete snapshot at the path, the
\* old one or the new one; the path is never absent.
C29_ReplaceNeverLosesSnapshot ==
    [][SnapshotPresent(dir) => SnapshotPresent(dir')]_vars

\* Every step of Create but the removal of the old snapshot keeps a complete
\* snapshot at the path.
OnlyRemoveLosesSnapshot ==
    [][SnapshotPresent(dir) /\ ~SnapshotPresent(dir') => cr # Nil /\ cr.pc = "stat"]_vars

(***************************************************************************)
(* Rejected and failed ingests (SpecIngest).                               *)
(***************************************************************************)
ErrorStatuses == {400, 401, 405, 500}

\* the handler of t answered its ingest request with an error
IngestRejected(t) ==
    /\ th[t].req # Nil
    /\ th[t].req.kind = "ingest"
    /\ th[t].status \in ErrorStatuses

\* a handler that answered with an error never held a combined slice to
\* publish, is done, and does not hold the write lock
RejectedNeverPublished ==
    \A t \in Goroutines :
        IngestRejected(t) => /\ th[t].pc = "idle"
                             /\ th[t].ents = <<>>
                             /\ srv.mu.writer # t

\* the step in which a handler answers with an error changes neither the
\* entries, nor loadStats, nor the cached index, and leaves the write lock
\* with no goroutine that held it for this request
AnswersErrorWithoutChange ==
    (\E t \in Goroutines : ~IngestRejected(t) /\ IngestRejected(t)')
        => /\ entries' = entries
           /\ index' = index
           /\ srv'.loadStats = srv.loadStats
           /\ \A t \in Goroutines : IngestRejected(t)' => srv'.mu.writer # t

\* only the three publishing steps of a handler that holds the write lock
\* change the entries, loadStats or the cached index
OnlyPublishingChanges ==
    (entries' # entries \/ index' # index \/ srv'.loadStats # srv.loadStats)
        => \E t \in Goroutines : /\ srv.mu.writer = t
                                 /\ th[t].pc \in {"publish", "stats", "nullIndex"}
                                 /\ th[t].ents # <<>>

\* C30: a handleIngest that answers with an error (wrong method, wrong or
\* missing key, invalid JSON, no entry, an invalid entry in a batch, a failed
\* store or shard append) leaves entries, loadStats and the cached index as
\* they were, publishes no entry of its batch, and does not keep the write
\* lock.
C30_RejectedIngestChangesNothing ==
    /\ []RejectedNeverPublished
    /\ [][AnswersErrorWithoutChange /\ OnlyPublishingChanges]_vars

\* a batch of two was appended to the store file, the shard append failed and
\* the handler answered 500: the server still holds its first entry and the
\* index over it, and the write lock is free
C30_Witness ==
    \E t \in Goroutines :
        /\ IngestRejected(t)
        /\ th[t].status = 500
        /\ Len(th[t].batch) = 2
        /\ StoredLines = th[t].batch
        /\ disk.shards = <<>>
        /\ entries = <<eOld>>
        /\ index = Build(entries)
        /\ srv.loadStats = LoadStats(1, 1)
        /\ srv.mu.writer = NoWriter

====
